---- MODULE Spec2Model ----
(***************************************************************************)
(* A model of the learning service (learning/models.py, learning/views.py, *)
(* learning/admin.py): relational storage, the look-aside cache and the    *)
(* request handlers, one action per handler.                               *)
(*                                                                         *)
(* Identifiers (UUIDs) are modelled as positive integers given out in      *)
(* creation order.  A timestamp is the single token NOW; None is NULL.     *)
(* A float percentage is the exact fraction [num, den] in lowest terms.    *)
(***************************************************************************)
EXTENDS Integers, Sequences, FiniteSets, TLC

----------------------------------------------------------------------------
(* Bounds of the model *)

MaxUsers == 2
MaxPaths == 2
MaxModules == 2
MaxLectures == 3

Users == 1..MaxUsers
PathIds == 1..MaxPaths
ModuleIds == 1..MaxModules
LectureIds == 1..MaxLectures

NULL == "None"
NOW == "now"

----------------------------------------------------------------------------
(* Storage (the relational tables), the cache and the last response *)

VARIABLES
    learningPaths,          \* LearningPath rows: the set of ids
    modules,                \* Module rows: modules[m] = [learning_path, title]
    lectures,               \* Lecture rows: lectures[l] = [module, title]
    assignments,            \* Assignment rows: the modules that have one
    assessments,            \* Assessment rows: the paths that have one
    mappings,               \* InstituteBatchLearningPath rows: a row count per
                            \* <<institution, learning_path, batch>>
    lectureProgress,        \* LectureProgress rows keyed <<user, lecture>>
    moduleProgress,         \* ModuleProgress rows keyed <<user, module>>
    learningPathProgress,   \* LearningPathProgress rows keyed <<user, path>>
    assignmentAttempts,     \* AssignmentAttempt rows (a set of records)
    assessmentAttempts,     \* AssessmentAttempt rows (a set of records)
    detailCache,            \* cache entries learning_path_detail_{id}
    listCache,              \* cache entries learning_paths_{institute}_{batch}
    request,                \* the request a specification observes
    response                \* the response of the last request handled

content == <<learningPaths, modules, lectures, assignments, assessments>>
progress == <<lectureProgress, moduleProgress, learningPathProgress>>
attempts == <<assignmentAttempts, assessmentAttempts>>
caches == <<detailCache, listCache>>

vars == <<content, mappings, progress, attempts, caches, request, response>>

----------------------------------------------------------------------------
(* Percentages as exact fractions *)

RECURSIVE GCD(_, _)
GCD(a, b) == IF b = 0 THEN a ELSE GCD(b, a % b)

Frac(n, d) == LET g == GCD(n, d) IN [num |-> n \div g, den |-> d \div g]

Zero == Frac(0, 1)
Hundred == Frac(100, 1)

FracAdd(a, b) == Frac(a.num * b.den + b.num * a.den, a.den * b.den)
FracDiv(a, n) == Frac(a.num, a.den * n)
FracLess(a, b) == a.num * b.den < b.num * a.den

\* int(x) of a non-negative float
IntOf(a) == a.num \div a.den

----------------------------------------------------------------------------
(* Queries *)

\* module.lectures.all()
LecturesOf(m) == {l \in 1..Len(lectures) : lectures[l].module = m}

\* learning_path.modules.all()
ModulesOf(p) == {m \in 1..Len(modules) : modules[m].learning_path = p}

\* LectureProgress.objects.filter(user_id, lecture__in, is_viewed=True).count()
ViewedCount(lp, u, ls) ==
    Cardinality({l \in ls : <<u, l>> \in DOMAIN lp /\ lp[<<u, l>>].is_viewed})

\* A share that is not divided by the number of lectures
ViewedTimesHundred(lp, u, m) ==
    IF Cardinality(LecturesOf(m)) > 0
    THEN Frac(100 * ViewedCount(lp, u, LecturesOf(m)), 1)
    ELSE Zero

\* (viewed / total) * 100, and 0 for a module without lectures
ViewedPercent(lp, u, m) ==
    IF Cardinality(LecturesOf(m)) > 0
    THEN Frac(100 * ViewedCount(lp, u, LecturesOf(m)), Cardinality(LecturesOf(m)))
    ELSE Zero

RECURSIVE SumPercent(_, _, _)
SumPercent(lp, u, ms) ==
    IF ms = {} THEN Zero
    ELSE LET m == CHOOSE x \in ms : TRUE
         IN FracAdd(ViewedPercent(lp, u, m), SumPercent(lp, u, ms \ {m}))

\* A mean over the modules that have lectures only
PathPercentOverNonEmpty(lp, u, p) ==
    LET nonEmpty == {m \in ModulesOf(p) : LecturesOf(m) # {}}
    IN IF Cardinality(nonEmpty) > 0
       THEN FracDiv(SumPercent(lp, u, ModulesOf(p)), Cardinality(nonEmpty))
       ELSE Zero

\* total_progress / total_modules, and 0 for a path without modules
PathPercent(lp, u, p) ==
    IF Cardinality(ModulesOf(p)) > 0
    THEN FracDiv(SumPercent(lp, u, ModulesOf(p)), Cardinality(ModulesOf(p)))
    ELSE Zero

----------------------------------------------------------------------------
(* update_learning_path_progress: the three writes *)

\* get_or_create with defaults viewed, then the flip of an existing row
\* A toggle that sets no completed_at when it views an existing row again
ToggleWithoutTimestamp(lp, u, l) ==
    IF <<u, l>> \notin DOMAIN lp
    THEN lp @@ (<<u, l>> :> [is_viewed |-> TRUE, completed_at |-> NOW])
    ELSE IF lp[<<u, l>>].is_viewed
         THEN [lp EXCEPT ![<<u, l>>] = [is_viewed |-> FALSE, completed_at |-> NULL]]
         ELSE [lp EXCEPT ![<<u, l>>].is_viewed = TRUE]

\* A toggle that forgets to clear completed_at when it un-views
ToggleKeepingCompletedAt(lp, u, l) ==
    IF <<u, l>> \notin DOMAIN lp
    THEN lp @@ (<<u, l>> :> [is_viewed |-> TRUE, completed_at |-> NOW])
    ELSE IF lp[<<u, l>>].is_viewed
         THEN [lp EXCEPT ![<<u, l>>].is_viewed = FALSE]
         ELSE [lp EXCEPT ![<<u, l>>] = [is_viewed |-> TRUE, completed_at |-> NOW]]

ToggleLectureProgress(lp, u, l) ==
    IF <<u, l>> \notin DOMAIN lp
    THEN lp @@ (<<u, l>> :> [is_viewed |-> TRUE, completed_at |-> NOW])
    ELSE IF lp[<<u, l>>].is_viewed
         THEN [lp EXCEPT ![<<u, l>>] = [is_viewed |-> FALSE, completed_at |-> NULL]]
         ELSE [lp EXCEPT ![<<u, l>>] = [is_viewed |-> TRUE, completed_at |-> NOW]]

\* An update that marks the module completed as soon as one lecture is viewed
UpdateModuleProgressCompletedEarly(mp, lp, u, m) ==
    IF Cardinality(LecturesOf(m)) > 0
    THEN LET v == ViewedPercent(lp, u, m)
             row == [progress |-> v, is_completed |-> (v # Zero)]
         IN IF <<u, m>> \in DOMAIN mp
            THEN [mp EXCEPT ![<<u, m>>] = row]
            ELSE mp @@ (<<u, m>> :> row)
    ELSE mp

\* ModuleProgress.objects.update_or_create, skipped for a module without lectures
UpdateModuleProgress(mp, lp, u, m) ==
    IF Cardinality(LecturesOf(m)) > 0
    THEN LET v == ViewedPercent(lp, u, m)
             row == [progress |-> v, is_completed |-> (v = Hundred)]
         IN IF <<u, m>> \in DOMAIN mp
            THEN [mp EXCEPT ![<<u, m>>] = row]
            ELSE mp @@ (<<u, m>> :> row)
    ELSE mp

\* The row update_or_create hands to save(): the stored row with the new
\* progress, or a fresh row with the field defaults.
PathRowToSave(lpp, u, p, v) ==
    IF <<u, p>> \in DOMAIN lpp
    THEN [lpp[<<u, p>>] EXCEPT !.progress = v]
    ELSE [progress |-> v, is_completed |-> FALSE, completed_at |-> NULL]

\* LearningPathProgress.save reaches timezone.now() with timezone bound to
\* datetime.timezone, which has no attribute now: AttributeError.
SaveRaises(row) ==
    row.progress = Hundred /\ ~row.is_completed /\ row.completed_at = NULL

\* A save that leaves the completion fields alone when progress is below 100
SavedPathRowKeepingCompletion(row) ==
    IF row.progress = Hundred /\ ~row.is_completed
    THEN [row EXCEPT !.is_completed = TRUE]
    ELSE row

\* LearningPathProgress.save, when it does not raise
SavedPathRow(row) ==
    IF row.progress = Hundred /\ ~row.is_completed
    THEN [row EXCEPT !.is_completed = TRUE]
    ELSE IF FracLess(row.progress, Hundred)
         THEN [row EXCEPT !.is_completed = FALSE, !.completed_at = NULL]
         ELSE row

\* An update filtered by the path only: it writes the row of every user
UpdatePathProgressOfEveryUser(lpp, u, p, v) ==
    LET row == PathRowToSave(lpp, u, p, v)
        own == IF <<u, p>> \in DOMAIN lpp
               THEN [lpp EXCEPT ![<<u, p>>] = SavedPathRow(row)]
               ELSE lpp @@ (<<u, p>> :> SavedPathRow(row))
    IN IF SaveRaises(row) THEN lpp
       ELSE [k \in DOMAIN own |-> IF k[2] = p THEN SavedPathRow(row) ELSE own[k]]

\* LearningPathProgress.objects.update_or_create(defaults={'progress': v})
UpdatePathProgress(lpp, u, p, v) ==
    LET row == PathRowToSave(lpp, u, p, v)
    IN IF SaveRaises(row) THEN lpp
       ELSE IF <<u, p>> \in DOMAIN lpp
            THEN [lpp EXCEPT ![<<u, p>>] = SavedPathRow(row)]
            ELSE lpp @@ (<<u, p>> :> SavedPathRow(row))

UpdateLearningPathProgress(u, l) ==
    IF l \notin 1..Len(lectures)
    THEN /\ response' = [view |-> "update_learning_path_progress", status |-> 404]
         /\ UNCHANGED <<content, mappings, progress, attempts, caches>>
    ELSE LET m == lectures[l].module
             p == modules[m].learning_path
             lp == ToggleLectureProgress(lectureProgress, u, l)
             mp == UpdateModuleProgress(moduleProgress, lp, u, m)
             v == PathPercent(lp, u, p)
         IN /\ lectureProgress' = lp
            /\ moduleProgress' = mp
            /\ learningPathProgress' = UpdatePathProgress(learningPathProgress, u, p, v)
            /\ response' =
                 IF SaveRaises(PathRowToSave(learningPathProgress, u, p, v))
                 THEN [view |-> "update_learning_path_progress", status |-> 500]
                 ELSE [view |-> "update_learning_path_progress", status |-> 200,
                       is_viewed |-> lp[<<u, l>>].is_viewed,
                       completed_at |-> lp[<<u, l>>].completed_at,
                       module_progress |-> IntOf(ViewedPercent(lp, u, m)),
                       is_completed |-> (ViewedPercent(lp, u, m) = Hundred),
                       learning_path_progress |-> IntOf(v)]
            /\ UNCHANGED <<content, mappings, attempts, caches>>

----------------------------------------------------------------------------
(* Request bodies.  A JSON field is [present, value]; a title or a time is *)
(* modelled by its length, a URL by its characters, a level by its text.   *)

MaxTitleLength == 100
MaxNewItems == 2
MaxListPaths == 21
MaxPage == 4

Absent == [present |-> FALSE, value |-> 0]
Text(n) == [present |-> TRUE, value |-> n]
AbsentStr == [present |-> FALSE, value |-> ""]
Str(s) == [present |-> TRUE, value |-> s]
AbsentUrl == [present |-> FALSE, value |-> <<>>]
Url(s) == [present |-> TRUE, value |-> s]

HttpUrl == <<"h", "t", "t", "p", ":", "/", "/", "a">>
HttpsUrl == <<"h", "t", "t", "p", "s", ":", "/", "/", "a">>
FtpUrl == <<"f", "t", "p", ":", "/", "/", "a">>
UpperUrl == <<"H", "T", "T", "P", ":", "/", "/", "a">>

HasPrefix(s, pre) == Len(s) >= Len(pre) /\ SubSeq(s, 1, Len(pre)) = pre

\* re.compile(r'^https?://').match(s)
UrlPatternMatch(s) ==
    \/ HasPrefix(s, <<"h", "t", "t", "p", ":", "/", "/">>)
    \/ HasPrefix(s, <<"h", "t", "t", "p", "s", ":", "/", "/">>)

\* str.lower() on the level texts the model sends
Lower(s) ==
    CASE s = "Beginner" -> "beginner"
      [] s = "ADVANCED" -> "advanced"
      [] OTHER -> s

valid_levels == {"beginner", "intermediate", "advanced"}

\* field not in data or not data[field]
MissingOrEmpty(f, empty) == ~f.present \/ f.value = empty

Reply(view, status, msg) == [view |-> view, status |-> status, message |-> msg]

----------------------------------------------------------------------------
(* create_learning_path_with_modules *)

\* The first module of the list that fails validation, 0 when none does
\* A validation that looks at the first module only
FirstModuleOnly(items) ==
    IF /\ Len(items) > 0
       /\ \/ ~items[1].is_object
          \/ MissingOrEmpty(items[1].title, 0)
          \/ items[1].title.value > MaxTitleLength
    THEN 1 ELSE 0

FirstBadModule(items) ==
    LET bad == {i \in 1..Len(items) :
                   \/ ~items[i].is_object
                   \/ MissingOrEmpty(items[i].title, 0)
                   \/ items[i].title.value > MaxTitleLength}
    IN IF bad = {} THEN 0 ELSE CHOOSE i \in bad : \A j \in bad : i <= j

ModuleError(items, i) ==
    IF ~items[i].is_object
    THEN "Module " \o ToString(i) \o " must be an object"
    ELSE IF MissingOrEmpty(items[i].title, 0)
         THEN "Module " \o ToString(i) \o " must have a title"
         ELSE "Module " \o ToString(i) \o " title must be 100 characters or less"

\* The validation of the body: the message of the first failing rule, "" when
\* every rule passes.
CreatePathError(data) ==
    IF MissingOrEmpty(data.title, 0)
    THEN "Field \"title\" is required and cannot be empty"
    ELSE IF MissingOrEmpty(data.level, "")
    THEN "Field \"level\" is required and cannot be empty"
    ELSE IF MissingOrEmpty(data.time, 0)
    THEN "Field \"time\" is required and cannot be empty"
    ELSE IF MissingOrEmpty(data.thumbnail, <<>>)
    THEN "Field \"thumbnail\" is required and cannot be empty"
    ELSE IF data.title.value > MaxTitleLength
    THEN "Title must be 100 characters or less"
    ELSE IF Lower(data.level.value) \notin valid_levels
    THEN "Level must be one of: beginner, intermediate, advanced"
    ELSE IF ~UrlPatternMatch(data.thumbnail.value)
    THEN "Thumbnail must be a valid URL starting with http:// or https://"
    ELSE IF /\ ~MissingOrEmpty(data.certificate_url, <<>>)
            /\ ~UrlPatternMatch(data.certificate_url.value)
    THEN "Certificate URL must be a valid URL starting with http:// or https://"
    ELSE IF data.modules.kind # "list"
    THEN "Modules field is required and must be a list"
    ELSE IF Len(data.modules.items) = 0
    THEN "At least one module is required"
    ELSE IF FirstBadModule(data.modules.items) # 0
    THEN ModuleError(data.modules.items, FirstBadModule(data.modules.items))
    ELSE ""

\* Module.objects.create for each entry of the list, in list order
NewModules(p, items) ==
    [i \in 1..Len(items) |-> [learning_path |-> p, title |-> items[i].title.value]]

CreateLearningPathWithModules(method, data) ==
    IF method # "POST"
    THEN /\ response' = Reply("create_learning_path_with_modules", 405,
                              "Only POST method is allowed")
         /\ UNCHANGED <<content, mappings, progress, attempts, caches>>
    ELSE IF ~data.json
    THEN /\ response' = Reply("create_learning_path_with_modules", 400,
                              "Invalid JSON format")
         /\ UNCHANGED <<content, mappings, progress, attempts, caches>>
    ELSE IF CreatePathError(data) # ""
    THEN /\ response' = Reply("create_learning_path_with_modules", 400,
                              CreatePathError(data))
         /\ UNCHANGED <<content, mappings, progress, attempts, caches>>
    ELSE LET p == Cardinality(learningPaths) + 1
         IN /\ p <= MaxPaths
            /\ Len(modules) + Len(data.modules.items) <= MaxModules
            /\ learningPaths' = learningPaths \cup {p}
            /\ modules' = modules \o NewModules(p, data.modules.items)
            /\ response' = [view |-> "create_learning_path_with_modules",
                            status |-> 201,
                            message |-> "Learning path and modules created successfully",
                            id |-> p,
                            total_modules |-> Len(data.modules.items)]
            /\ UNCHANGED <<lectures, assignments, assessments, mappings,
                           progress, attempts, caches>>

----------------------------------------------------------------------------
(* add_module_to_learning_path *)

AddModuleToLearningPath(method, p, data) ==
    LET view == "add_module_to_learning_path"
        error == IF method # "POST" THEN Reply(view, 405, "Only POST method is allowed")
                 ELSE IF p \notin learningPaths
                 THEN Reply(view, 404, "Learning path not found")
                 ELSE IF ~data.json THEN Reply(view, 400, "Invalid JSON format")
                 ELSE IF MissingOrEmpty(data.title, 0)
                 THEN Reply(view, 400, "Title is required and cannot be empty")
                 ELSE IF data.title.value > MaxTitleLength
                 THEN Reply(view, 400, "Title must be 100 characters or less")
                 ELSE Reply(view, 201, "")
    IN IF error.status # 201
       THEN /\ response' = error
            /\ UNCHANGED <<content, mappings, progress, attempts, caches>>
       ELSE /\ Len(modules) < MaxModules
            /\ modules' = Append(modules, [learning_path |-> p,
                                           title |-> data.title.value])
            /\ response' = [view |-> view, status |-> 201,
                            message |-> "Module added successfully",
                            id |-> p, module_id |-> Len(modules) + 1]
            /\ UNCHANGED <<learningPaths, lectures, assignments, assessments,
                           mappings, progress, attempts, caches>>

----------------------------------------------------------------------------
(* add_lecture_to_module *)

\* 'video_url' in d and d['video_url'] and not url_pattern.match(d['video_url'])
BadVideoUrl(f) == ~MissingOrEmpty(f, <<>>) /\ ~UrlPatternMatch(f.value)

\* An add_lecture_to_module that deletes the detail entry of the module's path
AddLectureToModuleInvalidating(method, m, data) ==
    LET view == "add_lecture_to_module"
        error == IF method # "POST" THEN Reply(view, 405, "Only POST method is allowed")
                 ELSE IF m \notin 1..Len(modules)
                 THEN Reply(view, 404, "Module not found")
                 ELSE IF ~data.json THEN Reply(view, 400, "Invalid JSON format")
                 ELSE IF MissingOrEmpty(data.title, 0)
                 THEN Reply(view, 400, "Title is required and cannot be empty")
                 ELSE IF data.title.value > MaxTitleLength
                 THEN Reply(view, 400, "Title must be 100 characters or less")
                 ELSE IF BadVideoUrl(data.video_url)
                 THEN Reply(view, 400,
                        "Video URL must be a valid URL starting with http:// or https://")
                 ELSE Reply(view, 201, "")
    IN IF error.status # 201
       THEN /\ response' = error
            /\ UNCHANGED <<content, mappings, progress, attempts, caches>>
       ELSE /\ Len(lectures) < MaxLectures
            /\ lectures' = Append(lectures, [module |-> m, title |-> data.title.value])
            /\ response' = [view |-> view, status |-> 201,
                            message |-> "Lecture added successfully",
                            module_id |-> m, lecture_id |-> Len(lectures) + 1]
            /\ detailCache' = [k \in DOMAIN detailCache \ {modules[m].learning_path} |->
                                  detailCache[k]]
            /\ UNCHANGED <<learningPaths, modules, assignments, assessments,
                           mappings, progress, attempts, listCache>>

AddLectureToModule(method, m, data) ==
    LET view == "add_lecture_to_module"
        error == IF method # "POST" THEN Reply(view, 405, "Only POST method is allowed")
                 ELSE IF m \notin 1..Len(modules)
                 THEN Reply(view, 404, "Module not found")
                 ELSE IF ~data.json THEN Reply(view, 400, "Invalid JSON format")
                 ELSE IF MissingOrEmpty(data.title, 0)
                 THEN Reply(view, 400, "Title is required and cannot be empty")
                 ELSE IF data.title.value > MaxTitleLength
                 THEN Reply(view, 400, "Title must be 100 characters or less")
                 ELSE IF BadVideoUrl(data.video_url)
                 THEN Reply(view, 400,
                        "Video URL must be a valid URL starting with http:// or https://")
                 ELSE Reply(view, 201, "")
    IN IF error.status # 201
       THEN /\ response' = error
            /\ UNCHANGED <<content, mappings, progress, attempts, caches>>
       ELSE /\ Len(lectures) < MaxLectures
            /\ lectures' = Append(lectures, [module |-> m, title |-> data.title.value])
            /\ response' = [view |-> view, status |-> 201,
                            message |-> "Lecture added successfully",
                            module_id |-> m, lecture_id |-> Len(lectures) + 1]
            /\ UNCHANGED <<learningPaths, modules, assignments, assessments,
                           mappings, progress, attempts, caches>>

----------------------------------------------------------------------------
(* create_lectures_for_module *)

FirstBadLecture(items) ==
    LET bad == {i \in 1..Len(items) :
                   \/ ~items[i].is_object
                   \/ MissingOrEmpty(items[i].title, 0)
                   \/ items[i].title.value > MaxTitleLength
                   \/ BadVideoUrl(items[i].video_url)}
    IN IF bad = {} THEN 0 ELSE CHOOSE i \in bad : \A j \in bad : i <= j

LectureError(items, i) ==
    IF ~items[i].is_object
    THEN "Lecture " \o ToString(i) \o " must be an object"
    ELSE IF MissingOrEmpty(items[i].title, 0)
    THEN "Lecture " \o ToString(i) \o " must have a title"
    ELSE IF items[i].title.value > MaxTitleLength
    THEN "Lecture " \o ToString(i) \o " title must be 100 characters or less"
    ELSE "Lecture " \o ToString(i)
           \o " video URL must be a valid URL starting with http:// or https://"

\* video_url = models.URLField(max_length=500): a database that enforces the
\* column length (PostgreSQL, MySQL in strict mode) refuses the INSERT of a
\* longer value with a DataError, SQLite stores it.  The first entry whose
\* INSERT such a database refuses, 0 if there is none.
video_url_max_length == 500

FirstTooLong(items) ==
    LET long == {i \in 1..Len(items) :
                    /\ items[i].video_url.present
                    /\ Len(items[i].video_url.value) > video_url_max_length}
    IN IF long = {} THEN 0 ELSE CHOOSE i \in long : \A j \in long : i <= j

NewLectures(m, items) ==
    [i \in 1..Len(items) |-> [module |-> m, title |-> items[i].title.value]]

CreateLecturesForModule(method, m, data) ==
    LET view == "create_lectures_for_module"
        error == IF method # "POST" THEN Reply(view, 405, "Only POST method is allowed")
                 ELSE IF m \notin 1..Len(modules)
                 THEN Reply(view, 404, "Module not found")
                 ELSE IF ~data.json THEN Reply(view, 400, "Invalid JSON format")
                 ELSE IF data.lectures.kind # "list"
                 THEN Reply(view, 400, "Lectures field is required and must be a list")
                 ELSE IF Len(data.lectures.items) = 0
                 THEN Reply(view, 400, "At least one lecture is required")
                 ELSE IF FirstBadLecture(data.lectures.items) # 0
                 THEN Reply(view, 400, LectureError(data.lectures.items,
                                         FirstBadLecture(data.lectures.items)))
                 ELSE Reply(view, 201, "")
    IN IF error.status # 201
       THEN /\ response' = error
            /\ UNCHANGED <<content, mappings, progress, attempts, caches>>
       ELSE /\ Len(lectures) + Len(data.lectures.items) <= MaxLectures
            /\ \E enforced \in BOOLEAN :
                  LET k == FirstTooLong(data.lectures.items)
                  IN IF enforced /\ k # 0
                     THEN /\ lectures' = lectures \o
                                SubSeq(NewLectures(m, data.lectures.items), 1, k - 1)
                          /\ response' = Reply(view, 500, "An error occurred")
                     ELSE /\ lectures' = lectures \o NewLectures(m, data.lectures.items)
                          /\ response' = [view |-> view, status |-> 201,
                                          message |-> "Lectures created successfully",
                                          module_id |-> m,
                                          total_lectures |-> Len(data.lectures.items)]
            /\ UNCHANGED <<learningPaths, modules, assignments, assessments,
                           mappings, progress, attempts, caches>>

----------------------------------------------------------------------------
(* modify_module and modify_lecture *)

\* 'name' in data
Has(data, name) == name \in DOMAIN data /\ data[name].present

\* The attributes the handler assigns before save(): data[name] for the
\* names that are in data
Assigned(data, names) ==
    [n \in {x \in names : Has(data, x)} |-> data[n].value]

\* A modify_lecture that saves after each field it has checked
ModifyLectureSavingEachField(method, l, data) ==
    LET view == "modify_lecture"
        titleBad == Has(data, "title")
                       /\ (data.title.value = 0 \/ data.title.value > MaxTitleLength)
        error == IF method # "PUT" THEN Reply(view, 405, "Only PUT method is allowed")
                 ELSE IF l \notin 1..Len(lectures)
                 THEN Reply(view, 404, "Lecture not found")
                 ELSE IF ~data.json THEN Reply(view, 400, "Invalid JSON format")
                 ELSE IF titleBad THEN Reply(view, 400, "Title cannot be empty")
                 ELSE IF Has(data, "video_url") /\ BadVideoUrl(data.video_url)
                 THEN Reply(view, 400,
                        "Video URL must be a valid URL starting with http:// or https://")
                 ELSE Reply(view, 200, "Lecture updated successfully")
    IN /\ response' = error
       /\ lectures' =
             IF error.status = 200
             THEN [lectures EXCEPT ![l] =
                      Assigned(data, {"title", "content", "video_url"}) @@ @]
             ELSE IF method = "PUT" /\ l \in 1..Len(lectures) /\ data.json /\ ~titleBad
             THEN [lectures EXCEPT ![l] = Assigned(data, {"title", "content"}) @@ @]
             ELSE lectures
       /\ UNCHANGED <<learningPaths, modules, assignments, assessments,
                      mappings, progress, attempts, caches>>

\* A modify_module that parses the body before it looks the module up
ModifyModuleBodyFirst(method, m, data) ==
    LET view == "modify_module"
        error == IF method # "PUT" THEN Reply(view, 405, "Only PUT method is allowed")
                 ELSE IF ~data.json THEN Reply(view, 400, "Invalid JSON format")
                 ELSE IF m \notin 1..Len(modules)
                 THEN Reply(view, 404, "Module not found")
                 ELSE IF Has(data, "title") /\ data.title.value = 0
                 THEN Reply(view, 400, "Title cannot be empty")
                 ELSE IF Has(data, "title") /\ data.title.value > MaxTitleLength
                 THEN Reply(view, 400, "Title must be 100 characters or less")
                 ELSE Reply(view, 200, "Module updated successfully")
    IN /\ response' = error
       /\ modules' = IF error.status = 200
                     THEN [modules EXCEPT ![m] =
                              Assigned(data, {"title", "description"}) @@ @]
                     ELSE modules
       /\ UNCHANGED <<learningPaths, lectures, assignments, assessments,
                      mappings, progress, attempts, caches>>

ModifyModule(method, m, data) ==
    LET view == "modify_module"
        error == IF method # "PUT" THEN Reply(view, 405, "Only PUT method is allowed")
                 ELSE IF m \notin 1..Len(modules)
                 THEN Reply(view, 404, "Module not found")
                 ELSE IF ~data.json THEN Reply(view, 400, "Invalid JSON format")
                 ELSE IF Has(data, "title") /\ data.title.value = 0
                 THEN Reply(view, 400, "Title cannot be empty")
                 ELSE IF Has(data, "title") /\ data.title.value > MaxTitleLength
                 THEN Reply(view, 400, "Title must be 100 characters or less")
                 ELSE Reply(view, 200, "Module updated successfully")
    IN /\ response' = error
       /\ modules' = IF error.status = 200
                     THEN [modules EXCEPT ![m] =
                              Assigned(data, {"title", "description"}) @@ @]
                     ELSE modules
       /\ UNCHANGED <<learningPaths, lectures, assignments, assessments,
                      mappings, progress, attempts, caches>>

ModifyLecture(method, l, data) ==
    LET view == "modify_lecture"
        error == IF method # "PUT" THEN Reply(view, 405, "Only PUT method is allowed")
                 ELSE IF l \notin 1..Len(lectures)
                 THEN Reply(view, 404, "Lecture not found")
                 ELSE IF ~data.json THEN Reply(view, 400, "Invalid JSON format")
                 ELSE IF Has(data, "title") /\ data.title.value = 0
                 THEN Reply(view, 400, "Title cannot be empty")
                 ELSE IF Has(data, "title") /\ data.title.value > MaxTitleLength
                 THEN Reply(view, 400, "Title must be 100 characters or less")
                 ELSE IF Has(data, "video_url") /\ BadVideoUrl(data.video_url)
                 THEN Reply(view, 400,
                        "Video URL must be a valid URL starting with http:// or https://")
                 ELSE Reply(view, 200, "Lecture updated successfully")
    IN /\ response' = error
       /\ lectures' = IF error.status = 200
                      THEN [lectures EXCEPT ![l] =
                               Assigned(data, {"title", "content", "video_url"}) @@ @]
                      ELSE lectures
       /\ UNCHANGED <<learningPaths, modules, assignments, assessments,
                      mappings, progress, attempts, caches>>

----------------------------------------------------------------------------
(* Identifiers as the handlers see them: a UUID object, or its str() *)

UuidId(n) == [type |-> "UUID", hex |-> n]
StrId(n) == [type |-> "str", hex |-> n]

\* dict.pop(key, None) for each key, and dict[key] = value
Pop(r, keys) == [k \in DOMAIN r \ keys |-> r[k]]
Put(r, key, value) == [k \in DOMAIN r \cup {key} |-> IF k = key THEN value ELSE r[k]]

\* A JSON number: an int or a float, as a fraction
Number(n) == Frac(n, 1)
IntNumber(a) == Frac(IntOf(a), 1)

\* A set of ids as the list a query returns (in id order)
RECURSIVE SortedSeq(_)
SortedSeq(S) ==
    IF S = {} THEN <<>>
    ELSE LET x == CHOOSE y \in S : \A z \in S : y <= z
         IN <<x>> \o SortedSeq(S \ {x})

\* list[start:end] for 0 <= start
\* A slice that is off by one: q[start-1:end]
SliceFromBefore(q, start, end) ==
    IF start >= Len(q) THEN <<>>
    ELSE SubSeq(q, IF start = 0 THEN 1 ELSE start, IF end < Len(q) THEN end ELSE Len(q))

Slice(q, start, end) ==
    IF start >= Len(q) THEN <<>>
    ELSE SubSeq(q, start + 1, IF end < Len(q) THEN end ELSE Len(q))

----------------------------------------------------------------------------
(* vendor_add_learning_path_toInstitute *)

Institutes == {"parul", "X"}
Batches == {"Y"}

\* InstituteBatchLearningPath.objects.filter(...)
MappingRows(i, p, b) ==
    {k \in 1..Len(mappings) :
        mappings[k] = [institution |-> i, learning_path |-> p, batch |-> b]}

\* mapping.delete() of the .first() row
WithoutRow(q, k) == SubSeq(q, 1, k - 1) \o SubSeq(q, k + 1, Len(q))

\* An assignment that does not look for an existing mapping before it creates one
VendorAddWithoutLookup(method, i, p, b) ==
    LET view == "vendor_add_learning_path_toInstitute"
        rows == MappingRows(i, p, b)
    IN IF p \notin learningPaths
       THEN /\ response' = Reply(view, 404, "Learning path not found")
            /\ UNCHANGED <<content, mappings, progress, attempts, caches>>
       ELSE IF method = "POST"
       THEN /\ Len(mappings) < 2
            /\ mappings' = Append(mappings, [institution |-> i,
                                             learning_path |-> p, batch |-> b])
            /\ response' = Reply(view, 201, "Successfully assigned learning path")
            /\ UNCHANGED <<content, progress, attempts, caches>>
       ELSE IF method = "DELETE"
       THEN IF rows = {}
            THEN /\ response' = Reply(view, 404, "No mapping found")
                 /\ UNCHANGED <<content, mappings, progress, attempts, caches>>
            ELSE /\ mappings' = WithoutRow(mappings, CHOOSE k \in rows : \A j \in rows : k <= j)
                 /\ response' = Reply(view, 200, "Successfully removed learning path")
                 /\ UNCHANGED <<content, progress, attempts, caches>>
       ELSE /\ response' = Reply(view, 405, "Method not allowed")
            /\ UNCHANGED <<content, mappings, progress, attempts, caches>>

VendorAddLearningPathToInstitute(method, i, p, b) ==
    LET view == "vendor_add_learning_path_toInstitute"
        rows == MappingRows(i, p, b)
    IN IF p \notin learningPaths
       THEN /\ response' = Reply(view, 404, "Learning path not found")
            /\ UNCHANGED <<content, mappings, progress, attempts, caches>>
       ELSE IF method = "POST"
       THEN IF rows # {}
            THEN /\ response' = Reply(view, 400, "This learning path is already assigned")
                 /\ UNCHANGED <<content, mappings, progress, attempts, caches>>
            ELSE /\ mappings' = Append(mappings, [institution |-> i,
                                                  learning_path |-> p, batch |-> b])
                 /\ response' = Reply(view, 201, "Successfully assigned learning path")
                 /\ UNCHANGED <<content, progress, attempts, caches>>
       ELSE IF method = "DELETE"
       THEN IF rows = {}
            THEN /\ response' = Reply(view, 404, "No mapping found")
                 /\ UNCHANGED <<content, mappings, progress, attempts, caches>>
            ELSE /\ mappings' = WithoutRow(mappings, CHOOSE k \in rows : \A j \in rows : k <= j)
                 /\ response' = Reply(view, 200, "Successfully removed learning path")
                 /\ UNCHANGED <<content, progress, attempts, caches>>
       ELSE /\ response' = Reply(view, 405, "Method not allowed")
            /\ UNCHANGED <<content, mappings, progress, attempts, caches>>

----------------------------------------------------------------------------
(* learning_paths_list *)

items_per_page == 10

\* LearningPath.objects.filter(id__in=<the pair's mappings>)
MappedPaths(i, b) ==
    {p \in learningPaths :
        \E k \in 1..Len(mappings) :
            /\ mappings[k].institution = i /\ mappings[k].batch = b
            /\ mappings[k].learning_path = p}

\* The entry the handler caches on a miss: every path of the pair, no progress
ListCacheData(i, b) ==
    LET ids == SortedSeq(MappedPaths(i, b))
        data == [k \in 1..Len(ids) |-> [id |-> StrId(ids[k])]]
    IN [data |-> data,
        totalItems |-> Len(data),
        totalPages |-> (Len(data) + items_per_page - 1) \div items_per_page]

\* A listing that shows the stored float as it is
ListedProgressAsStored(u, id) ==
    IF \E key \in DOMAIN learningPathProgress : key[1] = u /\ StrId(key[2]) = id
    THEN learningPathProgress[<<u, id.hex>>].progress
    ELSE Number(0)

\* progress_map.get(item['id'], 0.0) truncated by int()
ListedProgress(u, id) ==
    IF \E key \in DOMAIN learningPathProgress : key[1] = u /\ StrId(key[2]) = id
    THEN IntNumber(learningPathProgress[<<u, id.hex>>].progress)
    ELSE Number(0)

\* The page cut from the list, each item with the user's progress
PageData(entry, u, page) ==
    LET cut == Slice(entry.data, (page - 1) * items_per_page,
                     (page - 1) * items_per_page + items_per_page)
    IN [k \in 1..Len(cut) |-> Put(cut[k], "progress", ListedProgress(u, cut[k].id))]

ListResponse(entry, u, page) ==
    [view |-> "learning_paths_list", status |-> 200,
     data |-> PageData(entry, u, page),
     currentPage |-> page, totalPages |-> entry.totalPages,
     totalItems |-> entry.totalItems, itemsPerPage |-> items_per_page]

LearningPathsList(i, b, u, page) ==
    IF <<i, b>> \in DOMAIN listCache
    THEN /\ response' = ListResponse(listCache[<<i, b>>], u, page)
         /\ UNCHANGED <<content, mappings, progress, attempts, caches>>
    ELSE IF MappedPaths(i, b) = {}
    THEN /\ response' = Reply("learning_paths_list", 404,
                              "No learning paths found for this institute and batch")
         /\ UNCHANGED <<content, mappings, progress, attempts, caches>>
    ELSE LET cache_data == ListCacheData(i, b)
         IN /\ listCache' = listCache @@ (<<i, b>> :> cache_data)
            /\ response' = ListResponse(cache_data, u, page)
            /\ UNCHANGED <<content, mappings, progress, attempts, detailCache>>

\* settings.CACHE_TTL runs out for one entry
ListCacheExpires(i, b) ==
    /\ <<i, b>> \in DOMAIN listCache
    /\ listCache' = [k \in DOMAIN listCache \ {<<i, b>>} |-> listCache[k]]
    /\ UNCHANGED <<content, mappings, progress, attempts, detailCache, response>>

----------------------------------------------------------------------------
(* vendor_learning_paths_list: the cache key is the fixed string           *)
(* 'vendor_learning_paths', held in the same cache as the listing entries  *)

vendor_cache_key == <<"vendor_learning_paths">>

VendorResponseData ==
    LET ids == SortedSeq(learningPaths)
    IN [learning_paths |-> [k \in 1..Len(ids) |-> [id |-> StrId(ids[k])]],
        total |-> Len(ids)]

VendorLearningPathsList ==
    LET view == "vendor_learning_paths_list"
    IN IF vendor_cache_key \in DOMAIN listCache
       THEN /\ response' = [view |-> view, status |-> 200,
                            learning_paths |-> listCache[vendor_cache_key].learning_paths,
                            total |-> listCache[vendor_cache_key].total]
            /\ UNCHANGED <<content, mappings, progress, attempts, caches>>
       ELSE IF learningPaths = {}
       THEN /\ response' = Reply(view, 404, "No learning paths found in the system")
            /\ UNCHANGED <<content, mappings, progress, attempts, caches>>
       ELSE /\ listCache' = listCache @@ (vendor_cache_key :> VendorResponseData)
            /\ response' = [view |-> view, status |-> 200,
                            learning_paths |-> VendorResponseData.learning_paths,
                            total |-> VendorResponseData.total]
            /\ UNCHANGED <<content, mappings, progress, attempts, detailCache>>

----------------------------------------------------------------------------
(* learning_path_detail *)

None == <<>>
Some(x) == <<x>>

\* lecture_progress_map.get(str(lecture_id))
LectureFields(u, id) ==
    IF \E key \in DOMAIN lectureProgress : key[1] = u /\ StrId(key[2]) = id
    THEN [is_viewed |-> lectureProgress[<<u, id.hex>>].is_viewed,
          completed_at |-> lectureProgress[<<u, id.hex>>].completed_at]
    ELSE [is_viewed |-> FALSE, completed_at |-> NULL]

\* module_progress_map.get(str(module_id)); the progress is a float
ModuleFields(u, id) ==
    IF \E key \in DOMAIN moduleProgress : key[1] = u /\ StrId(key[2]) = id
    THEN [progress |-> moduleProgress[<<u, id.hex>>].progress,
          is_completed |-> moduleProgress[<<u, id.hex>>].is_completed]
    ELSE [progress |-> Number(0), is_completed |-> FALSE]

\* LearningPathProgress.objects.filter(user_id, learning_path).first()
PathFields(u, p) ==
    IF <<u, p>> \in DOMAIN learningPathProgress
    THEN [progress |-> learningPathProgress[<<u, p>>].progress, updated_at |-> NOW]
    ELSE [progress |-> Number(0), updated_at |-> NULL]

\* assignment_attempts_map = {aa.assignment_id: aa}: the keys are UUID objects.
\* get(key) finds a row only when key equals the row's UUID key.
AssignmentFields(u, key) ==
    LET rows == {a \in assignmentAttempts :
                    a.user_id = u /\ UuidId(a.assignment) = key}
    IN IF rows # {}
       THEN LET a == CHOOSE x \in rows : TRUE
            IN [status |-> a.status, score |-> a.score, attempted_at |-> NOW]
       ELSE [status |-> "not_started", score |-> None, attempted_at |-> NULL]

\* AssessmentAttempt...filter(user_id, assessment__in).order_by('-attempt_number').first()
AssessmentFields(u, p) ==
    LET rows == {a \in assessmentAttempts : a.user_id = u /\ a.assessment = p}
    IN IF rows # {}
       THEN LET a == CHOOSE x \in rows : \A y \in rows : y.attempt_number <= x.attempt_number
            IN [attempt_number |-> a.attempt_number, score |-> a.score,
                status |-> a.status, attempted_at |-> NOW]
       ELSE [attempt_number |-> 0, score |-> None,
             status |-> "not_attempted", attempted_at |-> NULL]

\* The user-specific keys of each object of the response
PathUserKeys == {"progress", "updated_at"}
ModuleUserKeys == {"progress", "is_completed"}
LectureUserKeys == {"is_viewed", "completed_at"}
AssignmentUserKeys == {"status", "score", "attempted_at"}
AssessmentUserKeys == {"attempt_number", "score", "status", "attempted_at"}

\* The response dict as built on a cache miss (before anything is popped)
BuiltLecture(u, l) ==
    [lecture_id |-> StrId(l), title |-> lectures[l].title]
        @@ LectureFields(u, StrId(l))

\* The miss branch looks the attempt up by assignment.id, a UUID object
BuiltAssignment(u, m) ==
    [id |-> StrId(m), name |-> "assignment"] @@ AssignmentFields(u, UuidId(m))

BuiltModule(u, m) ==
    LET ls == SortedSeq(LecturesOf(m))
        obj == [module_id |-> StrId(m), title |-> modules[m].title,
                lectures |-> [k \in 1..Len(ls) |-> BuiltLecture(u, ls[k])]]
                 @@ ModuleFields(u, StrId(m))
    IN IF m \in assignments THEN Put(obj, "assignment", BuiltAssignment(u, m)) ELSE obj

BuiltResponse(u, p) ==
    LET ms == SortedSeq(ModulesOf(p))
        top == [id |-> StrId(p),
                total_lectures |-> Cardinality({l \in 1..Len(lectures) :
                                                  lectures[l].module \in ModulesOf(p)}),
                total_assignments |-> Cardinality(assignments \cap ModulesOf(p)),
                modules |-> [k \in 1..Len(ms) |-> BuiltModule(u, ms[k])]]
                 @@ PathFields(u, p)
    IN IF p \in assessments
       THEN Put(top, "assessment",
                [id |-> UuidId(p), name |-> "assessment"] @@ AssessmentFields(u, p))
       ELSE top

\* The pops of lines 633-647.  cache_data is response.copy(), a shallow copy:
\* its module, lecture, assignment and assessment dicts are the objects of
\* response itself, so these pops take the keys out of response too.
PoppedLecture(lec) == Pop(lec, LectureUserKeys)

PoppedModule(mod) ==
    LET obj == [Pop(mod, ModuleUserKeys) EXCEPT
                   !.lectures = [k \in 1..Len(mod.lectures) |->
                                    PoppedLecture(mod.lectures[k])]]
    IN IF "assignment" \in DOMAIN obj
       THEN [obj EXCEPT !.assignment = Pop(obj.assignment, AssignmentUserKeys)]
       ELSE obj

NestedPopped(resp) ==
    LET obj == [resp EXCEPT !.modules = [k \in 1..Len(resp.modules) |->
                                            PoppedModule(resp.modules[k])]]
    IN IF "assessment" \in DOMAIN obj
       THEN [obj EXCEPT !.assessment = Pop(obj.assessment, AssessmentUserKeys)]
       ELSE obj

\* cache_data: the copy, with progress and updated_at popped from the copy only
DetailCacheData(u, p) == Pop(NestedPopped(BuiltResponse(u, p)), PathUserKeys)

\* What JsonResponse(response) serialises on a miss: response after the pops
\* made through cache_data
DetailMissBody(u, p) == NestedPopped(BuiltResponse(u, p))

\* The hit branch: the user's rows laid over the cached structure
OverlaidLecture(u, lec) == LectureFields(u, lec.lecture_id) @@ lec

OverlaidModule(u, mod) ==
    LET fields == ModuleFields(u, mod.module_id)
        obj == [progress |-> IntNumber(fields.progress),
                is_completed |-> fields.is_completed]
                 @@ [mod EXCEPT !.lectures = [k \in 1..Len(mod.lectures) |->
                                                 OverlaidLecture(u, mod.lectures[k])]]
    IN IF "assignment" \in DOMAIN obj
       THEN [obj EXCEPT !.assignment =
                AssignmentFields(u, obj.assignment.id) @@ obj.assignment]
       ELSE obj

DetailHitBody(u, p, cached_data) ==
    LET fields == PathFields(u, p)
        obj == [progress |-> IntNumber(fields.progress),
                updated_at |-> fields.updated_at]
                 @@ [cached_data EXCEPT !.modules =
                        [k \in 1..Len(cached_data.modules) |->
                            OverlaidModule(u, cached_data.modules[k])]]
    IN IF "assessment" \in DOMAIN obj
       THEN [obj EXCEPT !.assessment = AssessmentFields(u, p) @@ obj.assessment]
       ELSE obj

Ok(view, body) == [view |-> view, status |-> 200] @@ body

\* A detail view that get-or-creates the user's LearningPathProgress row
LearningPathDetailGetOrCreate(p, u) ==
    IF p \notin learningPaths
    THEN /\ response' = Reply("learning_path_detail", 404, "Learning path not found")
         /\ UNCHANGED <<content, mappings, progress, attempts, caches>>
    ELSE /\ learningPathProgress' =
                IF <<u, p>> \in DOMAIN learningPathProgress THEN learningPathProgress
                ELSE learningPathProgress
                        @@ (<<u, p>> :> [progress |-> Zero, is_completed |-> FALSE,
                                         completed_at |-> NULL])
         /\ IF p \in DOMAIN detailCache
            THEN /\ response' = Ok("learning_path_detail",
                                   DetailHitBody(u, p, detailCache[p]))
                 /\ UNCHANGED caches
            ELSE /\ detailCache' = detailCache @@ (p :> DetailCacheData(u, p))
                 /\ response' = Ok("learning_path_detail", DetailMissBody(u, p))
                 /\ UNCHANGED listCache
         /\ UNCHANGED <<content, mappings, lectureProgress, moduleProgress, attempts>>

LearningPathDetail(p, u) ==
    IF p \notin learningPaths
    THEN /\ response' = Reply("learning_path_detail", 404, "Learning path not found")
         /\ UNCHANGED <<content, mappings, progress, attempts, caches>>
    ELSE IF p \in DOMAIN detailCache
    THEN /\ response' = Ok("learning_path_detail", DetailHitBody(u, p, detailCache[p]))
         /\ UNCHANGED <<content, mappings, progress, attempts, caches>>
    ELSE /\ detailCache' = detailCache @@ (p :> DetailCacheData(u, p))
         /\ response' = Ok("learning_path_detail", DetailMissBody(u, p))
         /\ UNCHANGED <<content, mappings, progress, attempts, listCache>>

\* settings.CACHE_TTL runs out for one entry
DetailCacheExpires(p) ==
    /\ p \in DOMAIN detailCache
    /\ detailCache' = [k \in DOMAIN detailCache \ {p} |-> detailCache[k]]
    /\ UNCHANGED <<content, mappings, progress, attempts, listCache, response>>

----------------------------------------------------------------------------
(* The admin site: attempts are rows the admin adds *)

MaxAttempts == 2

AdminResponse == [view |-> "admin", status |-> 200]

\* AssessmentAttemptAdmin: the user's next attempt at the assessment, numbered
\* after the attempts there are ((user, assessment, attempt_number) is unique)
AdminAddAssessmentAttempt(u, p, n) ==
    /\ p \in assessments
    /\ n = 1 + Cardinality({a \in assessmentAttempts :
                               a.user_id = u /\ a.assessment = p})
    /\ assessmentAttempts' = assessmentAttempts \cup
          {[user_id |-> u, assessment |-> p, attempt_number |-> n,
            score |-> Some(n), status |-> "completed"]}
    /\ response' = AdminResponse
    /\ UNCHANGED <<content, mappings, progress, assignmentAttempts, caches>>

\* AssignmentAttemptAdmin: a new row (one per user and assignment in the model)
AdminAddAssignmentAttempt(u, m) ==
    /\ m \in assignments
    /\ ~\E a \in assignmentAttempts : a.user_id = u /\ a.assignment = m
    /\ assignmentAttempts' = assignmentAttempts \cup
          {[user_id |-> u, assignment |-> m, status |-> "completed", score |-> Some(1)]}
    /\ response' = AdminResponse
    /\ UNCHANGED <<content, mappings, progress, assessmentAttempts, caches>>

----------------------------------------------------------------------------
(* The requests the specifications send *)

Methods == {"POST", "GET"}

GoodTitle == Text(1)
TitleValues == {Absent, Text(0), Text(1), Text(MaxTitleLength), Text(MaxTitleLength + 1)}
LevelValues == {AbsentStr, Str(""), Str("beginner"), Str("ADVANCED"), Str("expert")}
TimeValues == {Absent, Text(0), Text(1)}
UrlValues == {AbsentUrl, Url(<<>>), Url(HttpUrl), Url(HttpsUrl), Url(FtpUrl), Url(UpperUrl)}

GoodModule == [is_object |-> TRUE, title |-> GoodTitle]
ModuleEntries ==
    {[is_object |-> FALSE, title |-> Absent]}
      \cup {[is_object |-> TRUE, title |-> t] : t \in TitleValues}

RECURSIVE SeqsUpTo(_, _)
SeqsUpTo(S, n) ==
    IF n = 0 THEN {<<>>}
    ELSE LET shorter == SeqsUpTo(S, n - 1)
         IN shorter \cup {Append(q, x) : q \in {r \in shorter : Len(r) = n - 1}, x \in S}

JsonList(items) == [kind |-> "list", items |-> items]
NoList == {[kind |-> "absent", items |-> <<>>], [kind |-> "not_list", items |-> <<>>]}

GoodPathBody(items) ==
    [json |-> TRUE, title |-> GoodTitle, level |-> Str("beginner"), time |-> Text(1),
     thumbnail |-> Url(HttpsUrl), certificate_url |-> AbsentUrl, modules |-> JsonList(items)]

GoodLecture == [is_object |-> TRUE, title |-> GoodTitle, video_url |-> AbsentUrl]

TitleBody(t) == [json |-> TRUE, title |-> t]
LectureBody(t, v) == [json |-> TRUE, title |-> t, video_url |-> v]
LecturesBody(items) == [json |-> TRUE, lectures |-> JsonList(items)]

\* Well-formed content requests: a path with one or two modules, a module, a
\* lecture, a list of one or two lectures.
CreatePathOk ==
    /\ \E n \in 1..MaxNewItems :
         CreateLearningPathWithModules("POST", GoodPathBody([i \in 1..n |-> GoodModule]))
    /\ UNCHANGED request
AddModuleOk ==
    /\ \E p \in PathIds : AddModuleToLearningPath("POST", p, TitleBody(GoodTitle))
    /\ UNCHANGED request
AddLectureOk ==
    /\ \E m \in ModuleIds : AddLectureToModule("POST", m, LectureBody(GoodTitle, AbsentUrl))
    /\ UNCHANGED request
CreateLecturesOk ==
    /\ \E m \in ModuleIds, n \in 1..MaxNewItems :
         CreateLecturesForModule("POST", m, LecturesBody([i \in 1..n |-> GoodLecture]))
    /\ UNCHANGED request
Toggle ==
    /\ \E u \in Users, l \in LectureIds : UpdateLearningPathProgress(u, l)
    /\ UNCHANGED request

----------------------------------------------------------------------------
(* Progress roll-up under toggles and content management, from empty storage *)

NoResponse == [view |-> "none", status |-> 0]
NoRequest == [view |-> "none"]

EmptyStorage ==
    /\ learningPaths = {}
    /\ modules = <<>>
    /\ lectures = <<>>
    /\ assignments = {}
    /\ assessments = {}
    /\ mappings = <<>>
    /\ lectureProgress = <<>>
    /\ moduleProgress = <<>>
    /\ learningPathProgress = <<>>
    /\ assignmentAttempts = {}
    /\ assessmentAttempts = {}
    /\ detailCache = <<>>
    /\ listCache = <<>>
    /\ response = NoResponse

Init == EmptyStorage /\ request = NoRequest

Next ==
    \/ Toggle
    \/ CreatePathOk
    \/ AddModuleOk
    \/ AddLectureOk
    \/ CreateLecturesOk

Spec == Init /\ [][Next]_vars

----------------------------------------------------------------------------
(* Claims about the progress roll-up (specification Spec) *)

\* is_viewed of a LectureProgress row, a missing row counting as not viewed
Viewed(lp, u, l) == <<u, l>> \in DOMAIN lp /\ lp[<<u, l>>].is_viewed

\* The stored ModuleProgress value, 0 when the user has no row for the module
StoredModulePercent(u, m) ==
    IF <<u, m>> \in DOMAIN moduleProgress THEN moduleProgress[<<u, m>>].progress ELSE Zero

RECURSIVE SumStored(_, _)
SumStored(u, ms) ==
    IF ms = {} THEN Zero
    ELSE LET m == CHOOSE x \in ms : TRUE
         IN FracAdd(StoredModulePercent(u, m), SumStored(u, ms \ {m}))

MeanStored(u, p) ==
    IF ModulesOf(p) = {} THEN Zero
    ELSE FracDiv(SumStored(u, ModulesOf(p)), Cardinality(ModulesOf(p)))

\* C1: every stored ModuleProgress row holds 100 * viewed / total of its
\* module's lectures for its user (0 for a module without lectures).
C1_ModuleProgressIsViewedShare ==
    \A key \in DOMAIN moduleProgress :
        moduleProgress[key].progress = ViewedPercent(lectureProgress, key[1], key[2])

\* C2: every stored LearningPathProgress row holds the mean, over the modules
\* now in the path, of the user's module progress (0 for a path without modules).
C2_PathProgressIsMeanOfModules ==
    \A key \in DOMAIN learningPathProgress :
        learningPathProgress[key].progress = MeanStored(key[1], key[2])

\* The <<user, lecture>> whose LectureProgress row a step wrote
Toggled(u, l) ==
    /\ <<u, l>> \in DOMAIN lectureProgress'
    /\ \/ <<u, l>> \notin DOMAIN lectureProgress
       \/ lectureProgress'[<<u, l>>] # lectureProgress[<<u, l>>]

\* The row a second toggle by u on l, handled right after this step, leaves
AfterSecondToggle(u, l) == ToggleLectureProgress(lectureProgress', u, l)[<<u, l>>]

\* C3 as stated: after two consecutive toggles is_viewed is back at its value
\* before the first one and completed_at is null.
C3_ToggleTwiceRestoresAndClears ==
    [][\A u \in Users, l \in LectureIds :
          Toggled(u, l) =>
              /\ AfterSecondToggle(u, l).is_viewed = Viewed(lectureProgress, u, l)
              /\ AfterSecondToggle(u, l).completed_at = NULL]_vars

\* C3 amended: after two consecutive toggles is_viewed is back at its value
\* before the first one; completed_at is null when that value is not viewed
\* and a (new) timestamp when it is viewed.
C3_ToggleTwiceRestoresViewed ==
    [][\A u \in Users, l \in LectureIds :
          Toggled(u, l) =>
              /\ AfterSecondToggle(u, l).is_viewed = Viewed(lectureProgress, u, l)
              /\ (AfterSecondToggle(u, l).completed_at = NULL)
                     <=> ~Viewed(lectureProgress, u, l)]_vars

\* A toggle was answered for a row it left not viewed with completed_at
\* cleared (the second toggle of that row) while another row is viewed.
C3_Witness ==
    /\ response.view = "update_learning_path_progress"
    /\ response.status = 200
    /\ ~response.is_viewed /\ response.completed_at = NULL
    /\ \E key \in DOMAIN lectureProgress : lectureProgress[key].is_viewed

----------------------------------------------------------------------------
(* Validation of create_learning_path_with_modules: one client keeps       *)
(* sending the request drawn at the start while well-formed paths are      *)
(* created beside it.                                                      *)

CreateTitles == {Absent, Text(0), Text(1), Text(MaxTitleLength), Text(MaxTitleLength + 1)}
CreateLevels == {AbsentStr, Str(""), Str("beginner"), Str("ADVANCED"), Str("expert")}
CreateTimes == {Absent, Text(0), Text(1)}
CreateThumbnails == {AbsentUrl, Url(<<>>), Url(HttpUrl), Url(HttpsUrl), Url(FtpUrl)}
CreateCertificates == {AbsentUrl, Url(<<>>), Url(HttpsUrl), Url(FtpUrl), Url(UpperUrl)}
CreateModuleLists == NoList \cup {JsonList(q) : q \in SeqsUpTo(ModuleEntries, MaxNewItems)}

\* The number of fields in which a body differs from the well-formed one
Deviations(b) ==
    LET good == GoodPathBody(<<GoodModule>>)
        one(c) == IF c THEN 1 ELSE 0
    IN one(b.title # good.title) + one(b.level # good.level) + one(b.time # good.time)
         + one(b.thumbnail # good.thumbnail)
         + one(b.certificate_url # good.certificate_url) + one(b.modules # good.modules)

CreateBodies ==
    {b \in [json : {TRUE}, title : CreateTitles, level : CreateLevels,
            time : CreateTimes, thumbnail : CreateThumbnails,
            certificate_url : CreateCertificates, modules : CreateModuleLists] :
        Deviations(b) <= 2}

CreateRequests ==
    {[view |-> "create_learning_path_with_modules", method |-> "POST", data |-> b] :
        b \in CreateBodies}
      \cup {[view |-> "create_learning_path_with_modules", method |-> mth,
             data |-> [GoodPathBody(<<GoodModule>>) EXCEPT !.json = j]] :
               mth \in Methods, j \in BOOLEAN}

CreateFromRequest ==
    /\ request.view = "create_learning_path_with_modules"
    /\ CreateLearningPathWithModules(request.method, request.data)
    /\ UNCHANGED request

InitCreate == EmptyStorage /\ request \in CreateRequests

NextCreate ==
    \/ CreateFromRequest
    \/ CreatePathOk

SpecCreate == InitCreate /\ [][NextCreate]_vars

\* The validation rules of the create request, each on its own: a required
\* field missing or empty, a title over 100 characters, a level outside the
\* three (compared in lower case), a thumbnail or a given certificate_url
\* without the http(s):// prefix, no module list, an empty one, or a module
\* that is no object, has no title or has a title over 100 characters.
ViolatesCreateRules(d) ==
    \/ \E f \in {d.title, d.time} : ~f.present \/ f.value = 0
    \/ ~d.level.present \/ d.level.value = ""
    \/ ~d.thumbnail.present \/ d.thumbnail.value = <<>>
    \/ d.title.value > MaxTitleLength
    \/ Lower(d.level.value) \notin {"beginner", "intermediate", "advanced"}
    \/ ~UrlPatternMatch(d.thumbnail.value)
    \/ /\ d.certificate_url.present
       /\ d.certificate_url.value # <<>>
       /\ ~UrlPatternMatch(d.certificate_url.value)
    \/ d.modules.kind # "list"
    \/ d.modules.items = <<>>
    \/ \E i \in 1..Len(d.modules.items) :
          \/ ~d.modules.items[i].is_object
          \/ ~d.modules.items[i].title.present
          \/ d.modules.items[i].title.value = 0
          \/ d.modules.items[i].title.value > MaxTitleLength

\* C5: a create request that violates a validation rule is answered 400 and
\* creates no LearningPath row and no Module row, wherever the violating
\* module is in the list.
C5_InvalidCreateIsRejectedWithoutRows ==
    [][(/\ CreateFromRequest
        /\ request.method = "POST" /\ request.data.json
        /\ ViolatesCreateRules(request.data))
          => /\ response'.status = 400
             /\ learningPaths' = learningPaths
             /\ modules' = modules]_vars

\* A request whose second module alone is invalid was answered 400 while
\* storage already held a path.
C5_Witness ==
    /\ request.view = "create_learning_path_with_modules"
    /\ request.method = "POST" /\ request.data.json
    /\ request.data.modules.kind = "list"
    /\ Len(request.data.modules.items) = 2
    /\ FirstBadModule(request.data.modules.items) = 2
    /\ request.data.modules.items[2].title = Text(MaxTitleLength + 1)
    /\ response.view = "create_learning_path_with_modules"
    /\ response.status = 400
    /\ learningPaths # {}

----------------------------------------------------------------------------
(* Listing, assigning and unassigning: storage starts with MaxListPaths    *)
(* paths (created in the admin, without modules) of which the first k are  *)
(* assigned to institute "parul", batch "Y".                               *)

AssignedUpTo(k) ==
    [j \in 1..k |-> [institution |-> "parul", learning_path |-> j, batch |-> "Y"]]

InitListing ==
    /\ learningPaths = 1..MaxListPaths
    /\ modules = <<>> /\ lectures = <<>>
    /\ assignments = {} /\ assessments = {}
    /\ \E k \in 0..MaxListPaths : mappings = AssignedUpTo(k)
    /\ lectureProgress = <<>> /\ moduleProgress = <<>> /\ learningPathProgress = <<>>
    /\ assignmentAttempts = {} /\ assessmentAttempts = {}
    /\ detailCache = <<>> /\ listCache = <<>>
    /\ request = NoRequest /\ response = NoResponse

\* Path ids the assign requests name: the first path and one that does not exist
AssignTargets == {1, MaxListPaths + 1}

Assign ==
    \E mth \in {"POST", "DELETE", "GET"}, i \in Institutes, p \in AssignTargets,
       b \in Batches :
        /\ VendorAddLearningPathToInstitute(mth, i, p, b)
        /\ request' = [view |-> "vendor_add_learning_path_toInstitute", method |-> mth,
                       institute |-> i, learning_path_id |-> p, batch |-> b]

List ==
    \E i \in Institutes, b \in Batches, u \in Users, page \in 1..MaxPage :
        /\ LearningPathsList(i, b, u, page)
        /\ request' = [view |-> "learning_paths_list", institute |-> i, batch |-> b,
                       user |-> u, currentPage |-> page]

ListExpiry ==
    /\ \E i \in Institutes, b \in Batches : ListCacheExpires(i, b)
    /\ UNCHANGED request

NextListing ==
    \/ Assign
    \/ List
    \/ ListExpiry

SpecListing == InitListing /\ [][NextListing]_vars

ListRequested == request.view = "learning_paths_list" /\ response.view = "learning_paths_list"

\* C4: a listing for a pair that has no mapping row in storage is answered 404.
C4_ListingWithoutMappingIs404 ==
    (ListRequested /\ MappedPaths(request.institute, request.batch) = {})
        => response.status = 404

\* The ids of a list of items
Ids(items) == [k \in 1..Len(items) |-> items[k].id]

RECURSIVE PagesConcat(_, _, _)
PagesConcat(entry, u, n) ==
    IF n = 0 THEN <<>>
    ELSE PagesConcat(entry, u, n - 1) \o Ids(PageData(entry, u, n))

\* The least t with t * items_per_page >= n
Ceiling(n) == CHOOSE t \in 0..n : t * items_per_page >= n /\ (t = 0 \/ (t - 1) * items_per_page < n)

\* C10: the cached entry is the full list; a listing response holds exactly
\* the items at positions (p-1)*10 .. p*10-1 of it (at most 10, none beyond
\* the end), totalItems is its length, totalPages is ceiling(totalItems/10),
\* and the pages 1..totalPages concatenated are the full list.
C10_PagesPartitionTheCachedList ==
    (ListRequested /\ response.status = 200
       /\ <<request.institute, request.batch>> \in DOMAIN listCache)
    => LET full == listCache[<<request.institute, request.batch>>].data
           page == request.currentPage
           first == (page - 1) * items_per_page
       IN /\ Len(response.data) <= items_per_page
          /\ Len(response.data) =
               IF Len(full) <= first THEN 0
               ELSE IF Len(full) - first < items_per_page THEN Len(full) - first
               ELSE items_per_page
          /\ \A k \in 1..Len(response.data) : response.data[k].id = full[first + k].id
          /\ response.totalItems = Len(full)
          /\ response.totalPages = Ceiling(Len(full))
          /\ PagesConcat(listCache[<<request.institute, request.batch>>],
                         request.user, response.totalPages) = Ids(full)

\* The third page of a list of 21 paths, served from an entry cached before
\* a path of the list was unassigned (a cache hit).
C10_Witness ==
    /\ ListRequested /\ response.status = 200
    /\ request.currentPage = 3 /\ Len(response.data) = 1 /\ response.totalPages = 3
    /\ <<request.institute, request.batch>> \in DOMAIN listCache
    /\ listCache[<<request.institute, request.batch>>]
          # ListCacheData(request.institute, request.batch)

----------------------------------------------------------------------------
(* Detail of two paths: path 1 with one module of two lectures, with or    *)
(* without an assignment; path 2 without modules (created in the admin),   *)
(* with or without an assessment; both assigned to "parul", "Y".           *)

InitDetail ==
    /\ learningPaths = {1, 2}
    /\ modules = <<[learning_path |-> 1, title |-> 1]>>
    /\ lectures = <<[module |-> 1, title |-> 1], [module |-> 1, title |-> 1]>>
    /\ assignments \in SUBSET {1}
    /\ assessments \in SUBSET {2}
    /\ mappings = AssignedUpTo(2)
    /\ lectureProgress = <<>> /\ moduleProgress = <<>> /\ learningPathProgress = <<>>
    /\ assignmentAttempts = {} /\ assessmentAttempts = {}
    /\ detailCache = <<>> /\ listCache = <<>>
    /\ request = NoRequest /\ response = NoResponse

DetailUsers == 1..2

ToggleSeen ==
    \E u \in DetailUsers, l \in 1..2 :
        /\ UpdateLearningPathProgress(u, l)
        /\ request' = [view |-> "update_learning_path_progress"]

Detail ==
    \E u \in DetailUsers, p \in 1..3 :
        /\ LearningPathDetail(p, u)
        /\ request' = [view |-> "learning_path_detail", user |-> u, id |-> p]

AddAssessmentAttempt ==
    \E u \in DetailUsers, n \in 1..MaxAttempts :
        /\ AdminAddAssessmentAttempt(u, 2, n)
        /\ request' = [view |-> "admin"]

AddAssignmentAttempt ==
    \E u \in DetailUsers :
        /\ AdminAddAssignmentAttempt(u, 1)
        /\ request' = [view |-> "admin"]

DetailExpiry ==
    /\ \E p \in 1..2 : DetailCacheExpires(p)
    /\ UNCHANGED request

NextDetail ==
    \/ ToggleSeen
    \/ Detail
    \/ AddAssessmentAttempt
    \/ AddAssignmentAttempt
    \/ DetailExpiry

SpecDetail == InitDetail /\ [][NextDetail]_vars

DetailAnswered ==
    /\ request.view = "learning_path_detail"
    /\ response.view = "learning_path_detail"
    /\ response.status = 200

\* The keys of an object among the given ones, with their values
Restrict(r, keys) == [k \in DOMAIN r \cap keys |-> r[k]]

\* C6: a detail fetch of a path without modules shows progress 0 and no
\* modules and, when the path has an assessment the user never attempted, an
\* assessment with attempt_number 0 and status "not_attempted".
C6_DetailOfEmptyPathHasDefaults ==
    (DetailAnswered /\ ModulesOf(request.id) = {})
    => /\ "progress" \in DOMAIN response /\ response.progress = Number(0)
       /\ response.modules = <<>>
       /\ (/\ request.id \in assessments
           /\ ~\E a \in assessmentAttempts :
                  a.user_id = request.user /\ a.assessment = request.id)
          => /\ "assessment" \in DOMAIN response
             /\ {"attempt_number", "status"} \subseteq DOMAIN response.assessment
             /\ response.assessment.attempt_number = 0
             /\ response.assessment.status = "not_attempted"

\* The rows of storage a response to u should show (a number may be shown
\* truncated to an integer)
SameNumber(a, b) == IntOf(a) = IntOf(b)

ShowsLecture(lec, u) ==
    /\ LectureUserKeys \subseteq DOMAIN lec
    /\ Restrict(lec, LectureUserKeys) = LectureFields(u, lec.lecture_id)

ShowsAssignment(asg, u) ==
    /\ AssignmentUserKeys \subseteq DOMAIN asg
    /\ Restrict(asg, AssignmentUserKeys) = AssignmentFields(u, UuidId(asg.id.hex))

ShowsModule(mod, u) ==
    /\ ModuleUserKeys \subseteq DOMAIN mod
    /\ SameNumber(mod.progress, ModuleFields(u, mod.module_id).progress)
    /\ mod.is_completed = ModuleFields(u, mod.module_id).is_completed
    /\ \A k \in 1..Len(mod.lectures) : ShowsLecture(mod.lectures[k], u)
    /\ "assignment" \in DOMAIN mod => ShowsAssignment(mod.assignment, u)

ShowsStoredRows(body, u, p) ==
    /\ PathUserKeys \subseteq DOMAIN body
    /\ SameNumber(body.progress, PathFields(u, p).progress)
    /\ \A k \in 1..Len(body.modules) : ShowsModule(body.modules[k], u)
    /\ "assessment" \in DOMAIN body
         => /\ AssessmentUserKeys \subseteq DOMAIN body.assessment
            /\ Restrict(body.assessment, AssessmentUserKeys) = AssessmentFields(u, p)

\* The user-specific keys a body carries, object by object
UserKeys(body) ==
    [path |-> DOMAIN body \cap PathUserKeys,
     modules |-> [k \in 1..Len(body.modules) |->
         [module |-> DOMAIN body.modules[k] \cap ModuleUserKeys,
          lectures |-> [j \in 1..Len(body.modules[k].lectures) |->
                           DOMAIN body.modules[k].lectures[j] \cap LectureUserKeys],
          assignment |-> IF "assignment" \in DOMAIN body.modules[k]
                         THEN DOMAIN body.modules[k].assignment \cap AssignmentUserKeys
                         ELSE {}]],
     assessment |-> IF "assessment" \in DOMAIN body
                    THEN DOMAIN body.assessment \cap AssessmentUserKeys ELSE {}]

\* C7: every successful detail response, on a miss or on a hit, carries the
\* user's fields with the values in storage, and for the same storage the miss
\* response and the hit response carry the same user-specific fields.
C7_DetailShowsStoredUserFields ==
    /\ DetailAnswered => ShowsStoredRows(response, request.user, request.id)
    /\ \A u \in DetailUsers, p \in learningPaths :
          UserKeys(DetailMissBody(u, p))
              = UserKeys(DetailHitBody(u, p, DetailCacheData(u, p)))

\* The user-specific part of a body: the user keys it carries, with their values
UserView(body) ==
    [path |-> Restrict(body, PathUserKeys),
     modules |-> [k \in 1..Len(body.modules) |->
         [module |-> Restrict(body.modules[k], ModuleUserKeys),
          lectures |-> [j \in 1..Len(body.modules[k].lectures) |->
                           Restrict(body.modules[k].lectures[j], LectureUserKeys)],
          assignment |-> IF "assignment" \in DOMAIN body.modules[k]
                         THEN Restrict(body.modules[k].assignment, AssignmentUserKeys)
                         ELSE <<>>]],
     assessment |-> IF "assessment" \in DOMAIN body
                    THEN Restrict(body.assessment, AssessmentUserKeys) ELSE <<>>]

NoUserKeys(body) ==
    UserKeys(body) = [path |-> {},
                      modules |-> [k \in 1..Len(body.modules) |->
                          [module |-> {},
                           lectures |-> [j \in 1..Len(body.modules[k].lectures) |-> {}],
                           assignment |-> {}]],
                      assessment |-> {}]

\* The rows of one user
RowsOf(u) ==
    [lectures |-> {<<k, lectureProgress[k]>> : k \in {x \in DOMAIN lectureProgress : x[1] = u}},
     modules |-> {<<k, moduleProgress[k]>> : k \in {x \in DOMAIN moduleProgress : x[1] = u}},
     paths |-> {<<k, learningPathProgress[k]>> :
                   k \in {x \in DOMAIN learningPathProgress : x[1] = u}},
     assignments |-> {a \in assignmentAttempts : a.user_id = u},
     assessments |-> {a \in assessmentAttempts : a.user_id = u}]

\* What user b is shown for path p: by the entry in the cache when there is
\* one, by a miss otherwise; and on the first page of the listing
ShownDetail(b, p) ==
    IF p \in DOMAIN detailCache
    THEN UserView(DetailHitBody(b, p, detailCache[p]))
    ELSE UserView(DetailMissBody(b, p))

ShownList(b) == ListResponse(ListCacheData("parul", "Y"), b, 1).data

\* C8: the cached entries carry no user-specific field; what B is shown does
\* not depend on who filled the cache (B on a miss, or another user before B's
\* hit), and a step that leaves B's rows alone leaves what B is shown alone.
C8_ShownValuesDependOnOwnRowsOnly ==
    /\ [](/\ \A p \in DOMAIN detailCache : NoUserKeys(detailCache[p])
          /\ \A k \in 1..Len(ListCacheData("parul", "Y").data) :
                "progress" \notin DOMAIN ListCacheData("parul", "Y").data[k]
          /\ \A a \in DetailUsers, b \in DetailUsers, p \in learningPaths :
                UserView(DetailHitBody(b, p, DetailCacheData(a, p)))
                    = UserView(DetailMissBody(b, p)))
    /\ [][\A b \in DetailUsers, p \in learningPaths :
             (RowsOf(b)' = RowsOf(b) /\ detailCache' = detailCache)
                 => /\ ShownDetail(b, p)' = ShownDetail(b, p)
                    /\ ShownList(b)' = ShownList(b)]_vars

\* C9 as stated: after a detail fetch the user's LectureProgress,
\* ModuleProgress and LearningPathProgress rows for the path exist.
C9_DetailCreatesRows ==
    DetailAnswered
    => /\ <<request.user, request.id>> \in DOMAIN learningPathProgress
       /\ \A m \in ModulesOf(request.id) :
             /\ <<request.user, m>> \in DOMAIN moduleProgress
             /\ \A l \in LecturesOf(m) : <<request.user, l>> \in DOMAIN lectureProgress

\* C9 amended: a detail fetch creates and changes no progress row and no
\* attempt row; a user without a LearningPathProgress row for the path is
\* shown progress 0.
C9_DetailWritesNoRows ==
    [][(request'.view = "learning_path_detail" /\ response'.view = "learning_path_detail")
          => /\ UNCHANGED <<progress, attempts>>
             /\ (/\ response'.status = 200
                 /\ <<request'.user, request'.id>> \notin DOMAIN learningPathProgress)
                => response'.progress = Number(0)]_vars

\* A user without any row fetched path 1, whose lectures another user has rows for.
C9_Witness ==
    /\ DetailAnswered /\ request.id = 1
    /\ RowsOf(request.user) = [lectures |-> {}, modules |-> {}, paths |-> {},
                               assignments |-> {}, assessments |-> {}]
    /\ \E k \in DOMAIN lectureProgress : k[1] # request.user

----------------------------------------------------------------------------
(* Toggles and listings over two assigned paths: path 1 with one module of *)
(* three lectures, path 2 without modules.                                 *)

InitMapped ==
    /\ learningPaths = {1, 2}
    /\ modules = <<[learning_path |-> 1, title |-> 1]>>
    /\ lectures = [l \in 1..MaxLectures |-> [module |-> 1, title |-> 1]]
    /\ assignments = {} /\ assessments = {}
    /\ mappings = AssignedUpTo(2)
    /\ lectureProgress = <<>> /\ moduleProgress = <<>> /\ learningPathProgress = <<>>
    /\ assignmentAttempts = {} /\ assessmentAttempts = {}
    /\ detailCache = <<>> /\ listCache = <<>>
    /\ request = NoRequest /\ response = NoResponse

NextMapped ==
    \/ Toggle
    \/ List

SpecMapped == InitMapped /\ [][NextMapped]_vars

\* C11: a listing response shows, for each path on the page, the progress
\* stored for the requesting user truncated to an integer, and 0 for a path
\* the user has no LearningPathProgress row for, also when the list comes
\* from a cache entry written before the progress was stored.
C11_ListingShowsStoredProgress ==
    (ListRequested /\ response.status = 200)
    => \A k \in 1..Len(response.data) :
          LET key == <<request.user, response.data[k].id.hex>>
          IN response.data[k].progress =
                IF key \in DOMAIN learningPathProgress
                THEN Frac(learningPathProgress[key].progress.num
                             \div learningPathProgress[key].progress.den, 1)
                ELSE Frac(0, 1)

\* A listing shows 33 for path 1, whose stored progress for the user is 100/3,
\* and 0 for path 2, while the other user's stored progress for path 1 differs.
C11_Witness ==
    /\ ListRequested /\ response.status = 200
    /\ Len(response.data) = 2
    /\ <<request.user, 1>> \in DOMAIN learningPathProgress
    /\ learningPathProgress[<<request.user, 1>>].progress = Frac(100, 3)
    /\ response.data[1].progress = Frac(33, 1)
    /\ response.data[2].progress = Frac(0, 1)
    /\ \E u \in Users : /\ <<u, 1>> \in DOMAIN learningPathProgress
                        /\ learningPathProgress[<<u, 1>>].progress = Frac(200, 3)

----------------------------------------------------------------------------
(* Stored rows after toggles (specification Spec) *)

\* C12: every stored LectureProgress row has completed_at set exactly when
\* is_viewed is true.
C12_CompletedAtIffViewed ==
    \A key \in DOMAIN lectureProgress :
        (lectureProgress[key].completed_at # NULL) <=> lectureProgress[key].is_viewed

\* One row was toggled back to not viewed, another row was toggled to not
\* viewed and to viewed again beside it (its module shows the share of both).
C12_Witness ==
    \E a \in DOMAIN lectureProgress, b \in DOMAIN lectureProgress :
        /\ a # b /\ a[1] = b[1]
        /\ ~lectureProgress[a].is_viewed /\ lectureProgress[a].completed_at = NULL
        /\ lectureProgress[b].is_viewed /\ lectureProgress[b].completed_at = NOW
        /\ response.view = "update_learning_path_progress" /\ response.status = 200
        /\ response.is_viewed /\ response.module_progress = 50

\* C13: every stored ModuleProgress.progress and every stored
\* LearningPathProgress.progress lies in 0..100.
C13_StoredProgressInRange ==
    /\ \A key \in DOMAIN moduleProgress :
          /\ ~FracLess(moduleProgress[key].progress, Zero)
          /\ ~FracLess(Hundred, moduleProgress[key].progress)
    /\ \A key \in DOMAIN learningPathProgress :
          /\ ~FracLess(learningPathProgress[key].progress, Zero)
          /\ ~FracLess(Hundred, learningPathProgress[key].progress)

\* A user has a ModuleProgress row at 100 and a LearningPathProgress row
\* strictly between 0 and 100.
C13_Witness ==
    \E mk \in DOMAIN moduleProgress, pk \in DOMAIN learningPathProgress :
        /\ mk[1] = pk[1]
        /\ moduleProgress[mk].progress = Hundred
        /\ FracLess(Zero, learningPathProgress[pk].progress)
        /\ FracLess(learningPathProgress[pk].progress, Hundred)

----------------------------------------------------------------------------
(* Every verb, existing and missing targets, well-formed and unparsable    *)
(* bodies, sent to the endpoints one request at a time; storage starts     *)
(* with one path, one module and one lecture.                              *)

ReqMethods == {"POST", "PUT", "DELETE", "GET"}
MissingId == MaxPaths + MaxModules + MaxLectures
ReqTargets == {1, MissingId}
BadJson == [json |-> FALSE]

InitRequests ==
    /\ learningPaths = {1}
    /\ modules = <<[learning_path |-> 1, title |-> 1]>>
    /\ lectures = <<[module |-> 1, title |-> 1]>>
    /\ assignments = {} /\ assessments = {}
    /\ mappings = <<>>
    /\ lectureProgress = <<>> /\ moduleProgress = <<>> /\ learningPathProgress = <<>>
    /\ assignmentAttempts = {} /\ assessmentAttempts = {}
    /\ detailCache = <<>> /\ listCache = <<>>
    /\ request = NoRequest /\ response = NoResponse

Sent(view, method, target, data) ==
    [view |-> view, method |-> method, target |-> target, json |-> data.json]

CallCreatePath ==
    \E mth \in ReqMethods, d \in {GoodPathBody(<<GoodModule>>), BadJson} :
        /\ CreateLearningPathWithModules(mth, d)
        /\ request' = Sent("create_learning_path_with_modules", mth, 0, d)

CallAddModule ==
    \E mth \in ReqMethods, p \in ReqTargets, d \in {TitleBody(GoodTitle), BadJson} :
        /\ AddModuleToLearningPath(mth, p, d)
        /\ request' = Sent("add_module_to_learning_path", mth, p, d)

CallAddLecture ==
    \E mth \in ReqMethods, m \in ReqTargets,
       d \in {LectureBody(GoodTitle, AbsentUrl), BadJson} :
        /\ AddLectureToModule(mth, m, d)
        /\ request' = Sent("add_lecture_to_module", mth, m, d)

CallCreateLectures ==
    \E mth \in ReqMethods, m \in ReqTargets,
       d \in {LecturesBody(<<GoodLecture>>), BadJson} :
        /\ CreateLecturesForModule(mth, m, d)
        /\ request' = Sent("create_lectures_for_module", mth, m, d)

CallModifyModule ==
    \E mth \in ReqMethods, m \in ReqTargets, d \in {TitleBody(Text(2)), BadJson} :
        /\ ModifyModule(mth, m, d)
        /\ request' = Sent("modify_module", mth, m, d)

CallModifyLecture ==
    \E mth \in ReqMethods, l \in ReqTargets,
       d \in {LectureBody(Text(2), AbsentUrl), BadJson} :
        /\ ModifyLecture(mth, l, d)
        /\ request' = Sent("modify_lecture", mth, l, d)

CallAssign ==
    \E mth \in ReqMethods, p \in ReqTargets :
        /\ VendorAddLearningPathToInstitute(mth, "parul", p, "Y")
        /\ request' = Sent("vendor_add_learning_path_toInstitute", mth, p, BadJson)

CallToggle ==
    \E l \in ReqTargets :
        /\ UpdateLearningPathProgress(1, l)
        /\ request' = Sent("update_learning_path_progress", "GET", l, BadJson)

NextRequests ==
    \/ CallCreatePath
    \/ CallAddModule
    \/ CallAddLecture
    \/ CallCreateLectures
    \/ CallModifyModule
    \/ CallModifyLecture
    \/ CallAssign
    \/ CallToggle

SpecRequests == InitRequests /\ [][NextRequests]_vars

\* The verbs each endpoint that checks the verb supports
SupportedVerbs(view) ==
    CASE view = "vendor_add_learning_path_toInstitute" -> {"POST", "DELETE"}
      [] view \in {"modify_module", "modify_lecture"} -> {"PUT"}
      [] view \in {"create_learning_path_with_modules", "create_lectures_for_module",
                   "add_module_to_learning_path", "add_lecture_to_module"} -> {"POST"}
      [] OTHER -> ReqMethods

WrongVerb(req) == req.method \notin SupportedVerbs(req.view)

\* The entity the request names is not in storage
TargetMissing(req) ==
    CASE req.view \in {"add_module_to_learning_path",
                       "vendor_add_learning_path_toInstitute"} ->
             req.target \notin learningPaths
      [] req.view \in {"add_lecture_to_module", "create_lectures_for_module",
                       "modify_module"} -> req.target \notin 1..Len(modules)
      [] req.view \in {"modify_lecture", "update_learning_path_progress"} ->
             req.target \notin 1..Len(lectures)
      [] OTHER -> FALSE

storage == <<content, mappings, progress, attempts>>

\* C14: a request with a verb its endpoint does not support is answered 405
\* and writes nothing, whatever its target and body.
C14_WrongVerbIs405 ==
    [][WrongVerb(request')
          => response'.status = 405 /\ UNCHANGED storage]_vars

\* C15: a toggle, add-module, add-lecture, create-lectures, modify-module or
\* modify-lecture request (with a supported verb) that names a missing
\* lecture, path or module is answered 404 and writes nothing.
C15_MissingTargetIs404 ==
    [][(/\ request'.view # "vendor_add_learning_path_toInstitute"
        /\ TargetMissing(request') /\ ~WrongVerb(request'))
          => response'.status = 404 /\ UNCHANGED storage]_vars

\* A modify-lecture request with an unparsable body for a missing lecture was
\* answered 404 while storage holds progress rows and a mapping.
C15_Witness ==
    /\ request.view = "modify_lecture" /\ request.method = "PUT"
    /\ request.target = MissingId /\ ~request.json
    /\ response.status = 404
    /\ lectureProgress # <<>> /\ mappings # <<>>

\* C16: under assign and unassign requests handled one after the other at
\* most one mapping row exists per (institution, path, batch): POST on an
\* unmapped triple adds one row (201), POST on a mapped triple adds none
\* (400), DELETE on a mapped triple removes the row (200), DELETE on an
\* unmapped triple is answered 404; and no such request touches a progress row.
C16_OneMappingPerTriple ==
    /\ [](\A i \in Institutes, p \in learningPaths, b \in Batches :
             Cardinality(MappingRows(i, p, b)) <= 1)
    /\ [][(request'.view = "vendor_add_learning_path_toInstitute"
              /\ ~TargetMissing(request'))
          => LET rows == MappingRows("parul", request'.target, "Y")
                 row == [institution |-> "parul", learning_path |-> request'.target,
                         batch |-> "Y"]
             IN /\ (request'.method = "POST" /\ rows = {})
                     => response'.status = 201 /\ mappings' = Append(mappings, row)
                /\ (request'.method = "POST" /\ rows # {})
                     => response'.status = 400 /\ mappings' = mappings
                /\ (request'.method = "DELETE" /\ rows # {})
                     => /\ response'.status = 200
                        /\ Len(mappings') = Len(mappings) - 1
                        /\ \A k \in 1..Len(mappings') : mappings'[k] # row
                /\ (request'.method = "DELETE" /\ rows = {})
                     => response'.status = 404 /\ mappings' = mappings
                /\ UNCHANGED <<progress, attempts>>]_vars

\* A POST for a triple that is already mapped was answered 400 while the
\* user has progress rows.
C16_Witness ==
    /\ request.view = "vendor_add_learning_path_toInstitute"
    /\ request.method = "POST" /\ request.target = 1
    /\ response.status = 400
    /\ Cardinality(MappingRows("parul", 1, "Y")) = 1
    /\ lectureProgress # <<>> /\ moduleProgress # <<>>

----------------------------------------------------------------------------
(* The vendor list beside path creation and assignment, from empty storage *)

VendorList ==
    /\ VendorLearningPathsList
    /\ request' = [view |-> "vendor_learning_paths_list"]

CreatePath ==
    /\ \E n \in 1..MaxNewItems :
         CreateLearningPathWithModules("POST", GoodPathBody([i \in 1..n |-> GoodModule]))
    /\ request' = [view |-> "create_learning_path_with_modules"]

VendorExpiry ==
    /\ vendor_cache_key \in DOMAIN listCache
    /\ listCache' = [k \in DOMAIN listCache \ {vendor_cache_key} |-> listCache[k]]
    /\ UNCHANGED <<content, mappings, progress, attempts, detailCache, request, response>>

NextVendor ==
    \/ VendorList
    \/ CreatePath
    \/ Assign
    \/ VendorExpiry

SpecVendor == Init /\ [][NextVendor]_vars

\* C20: a successful vendor list response holds exactly the learning paths in
\* storage, with total equal to their number, and the response is 404 when
\* storage holds no learning path.
C20_VendorListIsStorage ==
    (request.view = "vendor_learning_paths_list")
    => /\ response.status = 200
          => /\ {response.learning_paths[k].id.hex :
                    k \in 1..Len(response.learning_paths)} = learningPaths
             /\ Len(response.learning_paths) = Cardinality(learningPaths)
             /\ response.total = Cardinality(learningPaths)
       /\ learningPaths = {} => response.status = 404

----------------------------------------------------------------------------
(* Two requests in flight for the same cache key.  request[h] is the       *)
(* position and the locals of handler h: it reads the cache (cache.get),   *)
(* on a miss recomputes the entry from storage, then writes it (cache.set) *)
(* and answers.  Lectures are added and path 2 is unassigned and assigned  *)
(* in between, so that two recomputations can differ.                      *)

Handlers == {1, 2}

InitStampede ==
    /\ learningPaths = {1, 2}
    /\ modules = <<[learning_path |-> 1, title |-> 1]>>
    /\ lectures = <<[module |-> 1, title |-> 1]>>
    /\ assignments = {} /\ assessments = {}
    /\ mappings = AssignedUpTo(2)
    /\ lectureProgress = <<>> /\ moduleProgress = <<>> /\ learningPathProgress = <<>>
    /\ assignmentAttempts = {} /\ assessmentAttempts = {}
    /\ detailCache = <<>> /\ listCache = <<>>
    /\ request = [h \in Handlers |-> [pc |-> "idle"]]
    /\ response = NoResponse

\* The request reaches the view: learning_path_detail for path 1 and user h,
\* or learning_paths_list for ("parul", "Y"), user h, page 1
Arrive(h) ==
    /\ request[h].pc \in {"idle", "done"}
    /\ \E v \in {"learning_path_detail", "learning_paths_list"} :
          request' = [request EXCEPT ![h] = [pc |-> "get", view |-> v]]
    /\ UNCHANGED <<content, mappings, progress, attempts, caches, response>>

\* cached_data = cache.get(cache_key); a hit is answered from the entry
CacheGet(h) ==
    /\ request[h].pc = "get"
    /\ IF request[h].view = "learning_path_detail"
       THEN IF 1 \in DOMAIN detailCache
            THEN /\ response' = Ok("learning_path_detail",
                                   DetailHitBody(h, 1, detailCache[1]))
                 /\ request' = [request EXCEPT ![h] = [pc |-> "done", view |-> @.view,
                                                       miss |-> FALSE]]
            ELSE /\ request' = [request EXCEPT ![h].pc = "miss"]
                 /\ UNCHANGED response
       ELSE IF <<"parul", "Y">> \in DOMAIN listCache
            THEN /\ response' = ListResponse(listCache[<<"parul", "Y">>], h, 1)
                 /\ request' = [request EXCEPT ![h] = [pc |-> "done", view |-> @.view,
                                                       miss |-> FALSE]]
            ELSE /\ request' = [request EXCEPT ![h].pc = "miss"]
                 /\ UNCHANGED response
    /\ UNCHANGED <<content, mappings, progress, attempts, caches>>

\* The queries and the construction of cache_data after a miss
Recompute(h) ==
    /\ request[h].pc = "miss"
    /\ request' = [request EXCEPT ![h] =
          [pc |-> "set", view |-> @.view,
           cache_data |-> IF @.view = "learning_path_detail"
                          THEN DetailCacheData(h, 1)
                          ELSE ListCacheData("parul", "Y"),
           body |-> IF @.view = "learning_path_detail"
                    THEN DetailMissBody(h, 1) ELSE <<>>]]
    /\ UNCHANGED <<content, mappings, progress, attempts, caches, response>>

\* A write that keeps an entry another handler has written (cache.add)
CacheAdd(h) ==
    /\ request[h].pc = "set"
    /\ IF request[h].view = "learning_path_detail"
       THEN /\ detailCache' = IF 1 \in DOMAIN detailCache THEN detailCache
                              ELSE Put(detailCache, 1, request[h].cache_data)
            /\ response' = Ok("learning_path_detail", request[h].body)
            /\ UNCHANGED listCache
       ELSE /\ listCache' = IF <<"parul", "Y">> \in DOMAIN listCache THEN listCache
                            ELSE Put(listCache, <<"parul", "Y">>, request[h].cache_data)
            /\ response' = ListResponse(request[h].cache_data, h, 1)
            /\ UNCHANGED detailCache
    /\ request' = [request EXCEPT ![h] = [pc |-> "done", view |-> @.view, miss |-> TRUE,
                                          cache_data |-> @.cache_data]]
    /\ UNCHANGED <<content, mappings, progress, attempts>>

\* cache.set(cache_key, cache_data, settings.CACHE_TTL), then the response
CacheSet(h) ==
    /\ request[h].pc = "set"
    /\ IF request[h].view = "learning_path_detail"
       THEN /\ detailCache' = Put(detailCache, 1, request[h].cache_data)
            /\ response' = Ok("learning_path_detail", request[h].body)
            /\ UNCHANGED listCache
       ELSE /\ listCache' = Put(listCache, <<"parul", "Y">>, request[h].cache_data)
            /\ response' = ListResponse(request[h].cache_data, h, 1)
            /\ UNCHANGED detailCache
    /\ request' = [request EXCEPT ![h] = [pc |-> "done", view |-> @.view, miss |-> TRUE,
                                          cache_data |-> @.cache_data]]
    /\ UNCHANGED <<content, mappings, progress, attempts>>

ArriveAny == \E h \in Handlers : Arrive(h)
CacheGetAny == \E h \in Handlers : CacheGet(h)
RecomputeAny == \E h \in Handlers : Recompute(h)
CacheSetAny == \E h \in Handlers : CacheSet(h)

LectureAdded ==
    /\ AddLectureToModule("POST", 1, LectureBody(GoodTitle, AbsentUrl))
    /\ UNCHANGED request

PathTwoAssigned ==
    /\ \E mth \in {"POST", "DELETE"} : VendorAddLearningPathToInstitute(mth, "parul", 2, "Y")
    /\ UNCHANGED request

NextStampede ==
    \/ ArriveAny
    \/ CacheGetAny
    \/ RecomputeAny
    \/ CacheSetAny
    \/ LectureAdded
    \/ PathTwoAssigned

SpecStampede == InitStampede /\ [][NextStampede]_vars

\* The entry under the key of the view
CacheEntries(view) ==
    IF view = "learning_path_detail"
    THEN IF 1 \in DOMAIN detailCache THEN {detailCache[1]} ELSE {}
    ELSE IF <<"parul", "Y">> \in DOMAIN listCache THEN {listCache[<<"parul", "Y">>]} ELSE {}

BothMissed(view) ==
    \A h \in Handlers :
        request[h].pc = "done" /\ request[h].view = view /\ request[h].miss

\* C17: two requests for the same key that both read the cache before either
\* wrote it both miss, both recompute and both write: nothing keeps a handler
\* that missed from recomputing and from writing over the entry of the other,
\* and when both have finished the entry is the value one of them computed.
C17_BothMissesRecomputeAndWrite ==
    /\ [](\A view \in {"learning_path_detail", "learning_paths_list"} :
             BothMissed(view)
                => CacheEntries(view) \subseteq {request[h].cache_data : h \in Handlers}
                   /\ CacheEntries(view) # {})
    /\ [][\A h \in Handlers :
             (request[h].pc = "set" /\ request'[h].pc = "done")
                => CacheEntries(request[h].view)' = {request[h].cache_data}]_vars

\* Both handlers missed on the detail key, computed different entries, and
\* the second write replaced the first: the entry is handler 1's value.
C17_Witness ==
    /\ BothMissed("learning_path_detail")
    /\ request[1].cache_data # request[2].cache_data
    /\ detailCache[1] = request[1].cache_data
    /\ detailCache[1] # DetailCacheData(1, 1)

----------------------------------------------------------------------------
(* Two toggle requests of one user in flight, statement by statement.  In  *)
(* this specification a progress table is the sequence of its rows (the    *)
(* position is the primary key), so that two rows for one key can be told  *)
(* apart from one; request[h] is the position and the locals of handler h. *)
(* Path 1 has one module with two lectures.                                *)

RaceUser == 1

InitRace ==
    /\ learningPaths = {1}
    /\ modules = <<[learning_path |-> 1, title |-> 1]>>
    /\ lectures = <<[module |-> 1, title |-> 1], [module |-> 1, title |-> 1]>>
    /\ assignments = {} /\ assessments = {}
    /\ mappings = <<>>
    /\ lectureProgress = <<>> /\ moduleProgress = <<>> /\ learningPathProgress = <<>>
    /\ assignmentAttempts = {} /\ assessmentAttempts = {}
    /\ detailCache = <<>> /\ listCache = <<>>
    /\ request = [h \in Handlers |-> [pc |-> "idle"]]
    /\ response = NoResponse

\* The locals of a handler: the lecture of the URL, the primary key and the
\* is_viewed of the instance it loaded, the percentage it computed, and
\* where and how it ended
Local(pc, l, pk, seen, v, at, status) ==
    [pc |-> pc, lecture |-> l, pk |-> pk, is_viewed |-> seen, value |-> v,
     module_value |-> Zero, at |-> at, status |-> status]

\* objects.filter(user_id=u, <field>=id): the primary keys of the rows
RowsFor(table, u, field, id) ==
    {k \in 1..Len(table) : table[k].user_id = u /\ table[k][field] = id}

FirstOf(pks) == CHOOSE k \in pks : \A j \in pks : k <= j

\* (viewed / total) * 100 over the rows of the table
ViewedShare(u, m) ==
    Frac(100 * Cardinality({k \in 1..Len(lectureProgress) :
                               /\ lectureProgress[k].user_id = u
                               /\ lectureProgress[k].lecture \in LecturesOf(m)
                               /\ lectureProgress[k].is_viewed}),
         Cardinality(LecturesOf(m)))

RECURSIVE SumShare(_, _)
SumShare(u, ms) ==
    IF ms = {} THEN Zero
    ELSE LET m == CHOOSE x \in ms : TRUE
         IN FracAdd(IF LecturesOf(m) = {} THEN Zero ELSE ViewedShare(u, m),
                    SumShare(u, ms \ {m}))

PathShare(u, p) == FracDiv(SumShare(u, ModulesOf(p)), Cardinality(ModulesOf(p)))

\* The request reaches the view and the lecture is found
RaceArrive ==
    \E h \in Handlers, l \in 1..2 :
        /\ request[h].pc \in {"idle", "done"}
        /\ request' = [request EXCEPT ![h] = Local("lecture_get", l, 0, FALSE, Zero, "", 0)]
        /\ UNCHANGED <<content, mappings, progress, attempts, caches, response>>

\* get_or_create: the SELECT
LectureGet ==
    \E h \in Handlers :
        LET r == request[h]
            pks == RowsFor(lectureProgress, RaceUser, "lecture", r.lecture)
        IN /\ r.pc = "lecture_get"
           /\ request' = [request EXCEPT ![h] =
                 IF pks = {}
                 THEN Local("lecture_create", r.lecture, 0, FALSE, Zero, "", 0)
                 ELSE Local("lecture_save", r.lecture, FirstOf(pks),
                            lectureProgress[FirstOf(pks)].is_viewed, Zero, "", 0)]
           /\ UNCHANGED <<content, mappings, progress, attempts, caches, response>>

\* An INSERT into a table without the unique constraint
LectureCreateUnchecked ==
    \E h \in Handlers :
        LET r == request[h]
        IN /\ r.pc = "lecture_create"
           /\ lectureProgress' = Append(lectureProgress,
                  [user_id |-> RaceUser, lecture |-> r.lecture,
                   is_viewed |-> TRUE, completed_at |-> NOW])
           /\ request' = [request EXCEPT ![h] =
                  Local("module_read", r.lecture, Len(lectureProgress) + 1,
                        TRUE, Zero, "", 0)]
           /\ UNCHANGED <<content, mappings, moduleProgress, learningPathProgress,
                          attempts, caches, response>>

\* get_or_create: the INSERT under unique_together ('user_id', 'lecture'); on
\* IntegrityError the row another request created is loaded instead
LectureCreate ==
    \E h \in Handlers :
        LET r == request[h]
            pks == RowsFor(lectureProgress, RaceUser, "lecture", r.lecture)
        IN /\ r.pc = "lecture_create"
           /\ IF pks = {}
              THEN /\ lectureProgress' = Append(lectureProgress,
                          [user_id |-> RaceUser, lecture |-> r.lecture,
                           is_viewed |-> TRUE, completed_at |-> NOW])
                   /\ request' = [request EXCEPT ![h] =
                          Local("module_read", r.lecture, Len(lectureProgress) + 1,
                                TRUE, Zero, "", 0)]
              ELSE /\ request' = [request EXCEPT ![h] =
                          Local("lecture_save", r.lecture, FirstOf(pks),
                                lectureProgress[FirstOf(pks)].is_viewed, Zero, "", 0)]
                   /\ UNCHANGED lectureProgress
           /\ UNCHANGED <<content, mappings, moduleProgress, learningPathProgress,
                          attempts, caches, response>>

\* if not created: the flip of the loaded instance and lecture_progress.save()
LectureSave ==
    \E h \in Handlers :
        LET r == request[h]
        IN /\ r.pc = "lecture_save"
           /\ lectureProgress' = [lectureProgress EXCEPT ![r.pk] =
                 [@ EXCEPT !.is_viewed = ~r.is_viewed,
                           !.completed_at = IF r.is_viewed THEN NULL ELSE NOW]]
           /\ request' = [request EXCEPT ![h] =
                 Local("module_read", r.lecture, r.pk, ~r.is_viewed, Zero, "", 0)]
           /\ UNCHANGED <<content, mappings, moduleProgress, learningPathProgress,
                          attempts, caches, response>>

\* viewed_lectures and module_progress_value
ModuleRead ==
    \E h \in Handlers :
        LET r == request[h]
        IN /\ r.pc = "module_read"
           /\ request' = [request EXCEPT ![h] =
                 Local("module_write", r.lecture, r.pk, r.is_viewed,
                       ViewedShare(RaceUser, lectures[r.lecture].module), "", 0)]
           /\ UNCHANGED <<content, mappings, progress, attempts, caches, response>>

\* ModuleProgress.objects.update_or_create under unique_together
ModuleWrite ==
    \E h \in Handlers :
        LET r == request[h]
            m == lectures[r.lecture].module
            pks == RowsFor(moduleProgress, RaceUser, "module", m)
            row == [user_id |-> RaceUser, module |-> m, progress |-> r.value,
                    is_completed |-> (r.value = Hundred)]
        IN /\ r.pc = "module_write"
           /\ moduleProgress' = IF pks = {} THEN Append(moduleProgress, row)
                                ELSE [moduleProgress EXCEPT ![FirstOf(pks)] = row]
           /\ request' = [request EXCEPT ![h].pc = "path_read"]
           /\ UNCHANGED <<content, mappings, lectureProgress, learningPathProgress,
                          attempts, caches, response>>

\* learning_path_progress_value
PathRead ==
    \E h \in Handlers :
        LET r == request[h]
            p == modules[lectures[r.lecture].module].learning_path
        IN /\ r.pc = "path_read"
           /\ request' = [request EXCEPT ![h] =
                 [r EXCEPT !.pc = "path_write", !.module_value = r.value,
                           !.value = PathShare(RaceUser, p)]]
           /\ UNCHANGED <<content, mappings, progress, attempts, caches, response>>

\* LearningPathProgress.objects.update_or_create under unique_together; the
\* save() of the row raises when it reaches datetime.timezone.now()
PathWrite ==
    \E h \in Handlers :
        LET r == request[h]
            p == modules[lectures[r.lecture].module].learning_path
            pks == RowsFor(learningPathProgress, RaceUser, "learning_path", p)
            old == IF pks = {}
                   THEN [progress |-> r.value, is_completed |-> FALSE,
                         completed_at |-> NULL]
                   ELSE [progress |-> r.value,
                         is_completed |-> learningPathProgress[FirstOf(pks)].is_completed,
                         completed_at |-> learningPathProgress[FirstOf(pks)].completed_at]
            new == SavedPathRow(old)
            row == [user_id |-> RaceUser, learning_path |-> p, progress |-> new.progress,
                    is_completed |-> new.is_completed, completed_at |-> new.completed_at]
        IN /\ r.pc = "path_write"
           /\ IF SaveRaises(old)
              THEN /\ response' = [view |-> "update_learning_path_progress", status |-> 500]
                   /\ request' = [request EXCEPT ![h] =
                          Local("done", 0, 0, FALSE, Zero, "path_write", 500)]
                   /\ UNCHANGED learningPathProgress
              ELSE /\ learningPathProgress' =
                          IF pks = {} THEN Append(learningPathProgress, row)
                          ELSE [learningPathProgress EXCEPT ![FirstOf(pks)] = row]
                   /\ response' = [view |-> "update_learning_path_progress",
                                   status |-> 200,
                                   is_viewed |-> r.is_viewed,
                                   completed_at |-> IF r.is_viewed THEN NOW ELSE NULL,
                                   module_progress |-> IntOf(r.module_value),
                                   is_completed |-> (r.module_value = Hundred),
                                   learning_path_progress |-> IntOf(r.value)]
                   /\ request' = [request EXCEPT ![h] =
                          Local("done", r.lecture, 0, FALSE, Zero, "", 200)]
           /\ UNCHANGED <<content, mappings, lectureProgress, moduleProgress,
                          attempts, caches>>

\* A stop that takes the lecture write back, as a transaction around the
\* handler would
HandlerStopsRollingBack ==
    \E h \in Handlers :
        /\ request[h].pc \notin {"idle", "done"}
        /\ request' = [request EXCEPT ![h] =
              Local("done", 0, 0, FALSE, Zero, request[h].pc, 0)]
        /\ lectureProgress' =
              IF request[h].pc \in {"module_read", "module_write", "path_read", "path_write"}
              THEN [lectureProgress EXCEPT ![request[h].pk] =
                       [@ EXCEPT !.is_viewed = ~request[h].is_viewed,
                                 !.completed_at = IF request[h].is_viewed THEN NULL ELSE NOW]]
              ELSE lectureProgress
        /\ UNCHANGED <<content, mappings, moduleProgress, learningPathProgress,
                       attempts, caches, response>>

\* The handler stops where it is (the worker is killed, the connection to
\* the database is lost): no statement of it runs any more
HandlerStops ==
    \E h \in Handlers :
        /\ request[h].pc \notin {"idle", "done"}
        /\ request' = [request EXCEPT ![h] =
              Local("done", 0, 0, FALSE, Zero, request[h].pc, 0)]
        /\ UNCHANGED <<content, mappings, progress, attempts, caches, response>>

NextRace ==
    \/ RaceArrive
    \/ LectureGet
    \/ LectureCreate
    \/ LectureSave
    \/ ModuleRead
    \/ ModuleWrite
    \/ PathRead
    \/ PathWrite
    \/ HandlerStops

SpecRace == InitRace /\ [][NextRace]_vars

\* The order of the statements of the handler
Rank(pc) ==
    CASE pc = "lecture_get" -> 1
      [] pc = "lecture_create" -> 2
      [] pc = "lecture_save" -> 3
      [] pc = "module_read" -> 4
      [] pc = "module_write" -> 5
      [] pc = "path_read" -> 6
      [] pc = "path_write" -> 7
      [] OTHER -> 8

\* C18: a toggle writes LectureProgress, then ModuleProgress, then
\* LearningPathProgress, each table in its own step and in this order, and a
\* handler that stops or fails writes nothing back: the rows written by its
\* earlier steps stay, the rows of its later steps keep their previous values.
C18_WritesInOrderNothingUndone ==
    [][\A h \in Handlers :
          request'[h] # request[h]
          => /\ lectureProgress' # lectureProgress
                  => request[h].pc \in {"lecture_create", "lecture_save"}
             /\ moduleProgress' # moduleProgress => request[h].pc = "module_write"
             /\ learningPathProgress' # learningPathProgress
                  => request[h].pc = "path_write"
             /\ request[h].pc \notin {"idle", "done"}
                  => Rank(request'[h].pc) > Rank(request[h].pc)
             /\ (request'[h].pc = "done" /\ request'[h].status # 200)
                  => UNCHANGED progress]_vars

\* A handler stopped between its LectureProgress write and its ModuleProgress
\* write while no other request was in flight: the lecture row is viewed and
\* there is no ModuleProgress and no LearningPathProgress row.
C18_Witness ==
    /\ request[1].pc = "done" /\ request[1].status = 0
    /\ request[1].at \in {"module_read", "module_write"}
    /\ request[2].pc = "idle"
    /\ Len(lectureProgress) = 1 /\ lectureProgress[1].is_viewed
    /\ moduleProgress = <<>> /\ learningPathProgress = <<>>

\* C19: under every interleaving of toggles of one user storage holds at most
\* one LectureProgress row per (user, lecture), one ModuleProgress row per
\* (user, module) and one LearningPathProgress row per (user, path).
C19_OneRowPerKey ==
    /\ \A l \in 1..Len(lectures) :
          Cardinality(RowsFor(lectureProgress, RaceUser, "lecture", l)) <= 1
    /\ \A m \in 1..Len(modules) :
          Cardinality(RowsFor(moduleProgress, RaceUser, "module", m)) <= 1
    /\ \A p \in learningPaths :
          Cardinality(RowsFor(learningPathProgress, RaceUser, "learning_path", p)) <= 1

\* Two first-time toggles of one lecture raced: both found no row, one has
\* inserted it and the other is about to insert.
C19_Witness ==
    /\ request[1].pc = "lecture_create" /\ request[2].pc = "module_read"
    /\ request[1].lecture = request[2].lecture
    /\ RowsFor(lectureProgress, RaceUser, "lecture", request[1].lecture)
          = {request[2].pk}

----------------------------------------------------------------------------
(* What one toggle stores (specification Spec) *)

\* 100 * viewed / total of module m for user u under the LectureProgress rows lp
ShareOfModule(lp, u, m) ==
    IF LecturesOf(m) = {} THEN Zero
    ELSE Frac(100 * Cardinality({l \in LecturesOf(m) : Viewed(lp, u, l)}),
              Cardinality(LecturesOf(m)))

RECURSIVE SumOfShares(_, _, _)
SumOfShares(lp, u, ms) ==
    IF ms = {} THEN Zero
    ELSE LET m == CHOOSE x \in ms : TRUE
         IN FracAdd(ShareOfModule(lp, u, m), SumOfShares(lp, u, ms \ {m}))

MeanOfShares(lp, u, p) == FracDiv(SumOfShares(lp, u, ModulesOf(p)), Cardinality(ModulesOf(p)))

\* C21: a toggle by u on a lecture of module m in path p that is answered with
\* success stores ModuleProgress(u, m).progress = 100 * viewed / total and
\* LearningPathProgress(u, p).progress = the mean over all modules of p of
\* 100 * viewed / total (0 for a module without lectures), both computed from
\* the LectureProgress rows as they are after the flip.
C21_ToggleStoresSharesOfLectureRows ==
    [][\A u \in Users, l \in LectureIds :
          (Toggled(u, l) /\ response'.status = 200)
          => LET m == lectures[l].module
                 p == modules[m].learning_path
             IN /\ <<u, m>> \in DOMAIN moduleProgress'
                /\ moduleProgress'[<<u, m>>].progress = ShareOfModule(lectureProgress', u, m)
                /\ <<u, p>> \in DOMAIN learningPathProgress'
                /\ learningPathProgress'[<<u, p>>].progress
                      = MeanOfShares(lectureProgress', u, p)]_vars

\* A toggle was answered with success and the path value it stored is the mean
\* derived from the lecture rows while the mean of the stored ModuleProgress
\* rows is another value (a sibling module has a stale row).
C21_Witness ==
    /\ response.view = "update_learning_path_progress"
    /\ response.status = 200
    /\ \E key \in DOMAIN learningPathProgress :
          /\ learningPathProgress[key].progress
                = MeanOfShares(lectureProgress, key[1], key[2])
          /\ learningPathProgress[key].progress # MeanStored(key[1], key[2])
          /\ IntOf(learningPathProgress[key].progress) = response.learning_path_progress
          /\ \E m \in ModulesOf(key[2]) :
                /\ <<key[1], m>> \in DOMAIN moduleProgress
                /\ moduleProgress[<<key[1], m>>].progress
                      # ShareOfModule(lectureProgress, key[1], m)

\* Every module of p has lectures and u has viewed all of them under lp
AllViewed(lp, u, p) ==
    \A m \in ModulesOf(p) :
        /\ LecturesOf(m) # {}
        /\ \A l \in LecturesOf(m) : Viewed(lp, u, l)

\* C22: a toggle that leaves every lecture of every module of path p viewed by
\* u is answered with success, and the stored LearningPathProgress(u, p) row
\* has progress 100, is_completed true and completed_at non-null.
C22_CompletingToggleStoresCompletedRow ==
    [][\A u \in Users, l \in LectureIds :
          LET p == modules[lectures[l].module].learning_path
          IN (Toggled(u, l) /\ AllViewed(lectureProgress', u, p))
             => /\ response'.status = 200
                /\ <<u, p>> \in DOMAIN learningPathProgress'
                /\ learningPathProgress'[<<u, p>>].progress = Hundred
                /\ learningPathProgress'[<<u, p>>].is_completed
                /\ learningPathProgress'[<<u, p>>].completed_at # NULL]_vars

----------------------------------------------------------------------------
(* Completed paths.  No handler can store a completed LearningPathProgress   *)
(* row (the save that would do it raises), so completed rows come from the   *)
(* admin site, whose form saves through the same LearningPathProgress.save.  *)

\* The progress values the admin enters
AdminPercents == {Zero, Frac(50, 1), Hundred}

\* LearningPathProgressAdmin: add or change the row of (u, p)
AdminSaveLearningPathProgress(u, p, v, done, at) ==
    LET row == [progress |-> v, is_completed |-> done, completed_at |-> at]
    IN /\ p \in learningPaths
       /\ ~SaveRaises(row)
       /\ learningPathProgress' =
             IF <<u, p>> \in DOMAIN learningPathProgress
             THEN [learningPathProgress EXCEPT ![<<u, p>>] = SavedPathRow(row)]
             ELSE learningPathProgress @@ (<<u, p>> :> SavedPathRow(row))
       /\ request' = [view |-> "admin", user |-> u, learning_path |-> p,
                      row |-> SavedPathRow(row)]
       /\ response' = AdminResponse
       /\ UNCHANGED <<content, mappings, lectureProgress, moduleProgress,
                      attempts, caches>>

\* One path with one module of two lectures
InitCompleted ==
    /\ learningPaths = {1}
    /\ modules = <<[learning_path |-> 1, title |-> GoodTitle]>>
    /\ lectures = [l \in 1..2 |-> [module |-> 1, title |-> GoodTitle]]
    /\ assignments = {} /\ assessments = {}
    /\ mappings = <<>>
    /\ lectureProgress = <<>> /\ moduleProgress = <<>> /\ learningPathProgress = <<>>
    /\ assignmentAttempts = {} /\ assessmentAttempts = {}
    /\ detailCache = <<>> /\ listCache = <<>>
    /\ request = NoRequest
    /\ response = NoResponse

AdminSave ==
    \E u \in Users, v \in AdminPercents, done \in BOOLEAN, at \in {NULL, NOW} :
        AdminSaveLearningPathProgress(u, 1, v, done, at)

NextCompleted == Toggle \/ AdminSave

SpecCompleted == InitCompleted /\ [][NextCompleted]_vars

\* C23: every stored LearningPathProgress row has is_completed = true exactly
\* when its progress is 100 and completed_at = null whenever its progress is
\* below 100; a toggle that brings a completed row below 100 leaves it not
\* completed and without completed_at.
C23_CompletedIffHundred ==
    /\ [](\A key \in DOMAIN learningPathProgress :
            LET row == learningPathProgress[key]
            IN /\ row.is_completed <=> row.progress = Hundred
               /\ FracLess(row.progress, Hundred) => row.completed_at = NULL)
    /\ [][\A key \in DOMAIN learningPathProgress :
            (/\ response'.view = "update_learning_path_progress"
             /\ learningPathProgress[key].is_completed
             /\ FracLess(learningPathProgress'[key].progress, Hundred))
            => /\ ~learningPathProgress'[key].is_completed
               /\ learningPathProgress'[key].completed_at = NULL]_vars

\* The row the admin last saved as completed has been brought below 100 by a
\* toggle that un-viewed a lecture: it is not completed and has no completed_at.
C23_Witness ==
    /\ request.view = "admin" /\ request.row.is_completed
    /\ request.row.completed_at # NULL
    /\ response.view = "update_learning_path_progress"
    /\ response.status = 200 /\ ~response.is_viewed
    /\ LET row == learningPathProgress[<<request.user, request.learning_path>>]
       IN /\ FracLess(row.progress, Hundred)
          /\ ~row.is_completed
          /\ row.completed_at = NULL

----------------------------------------------------------------------------
(* Completion of modules (specification Spec) *)

\* C24: every stored ModuleProgress row has is_completed = true exactly when
\* its progress is 100, and a toggle stores is_completed = true exactly when
\* the user has viewed every lecture the module has at that time.
C24_ModuleCompletedIffHundred ==
    /\ [](\A key \in DOMAIN moduleProgress :
            moduleProgress[key].is_completed <=> moduleProgress[key].progress = Hundred)
    /\ [][\A u \in Users, l \in LectureIds :
            Toggled(u, l)
            => LET m == lectures[l].module
               IN /\ <<u, m>> \in DOMAIN moduleProgress'
                  /\ moduleProgress'[<<u, m>>].is_completed
                        <=> \A k \in LecturesOf(m) : Viewed(lectureProgress', u, k)]_vars

\* A module row is completed with progress 100 although the module has since
\* got a lecture its user has not viewed, and another row is not completed.
C24_Witness ==
    /\ \E key \in DOMAIN moduleProgress :
          /\ moduleProgress[key].is_completed
          /\ moduleProgress[key].progress = Hundred
          /\ \E l \in LecturesOf(key[2]) : ~Viewed(lectureProgress, key[1], l)
    /\ \E key \in DOMAIN moduleProgress :
          /\ ~moduleProgress[key].is_completed
          /\ FracLess(moduleProgress[key].progress, Hundred)

----------------------------------------------------------------------------
(* Aggregates after concurrent toggles (specification SpecOverlap) *)

\* The requests overlap and none of them is stopped from outside
NextOverlap ==
    \/ RaceArrive
    \/ LectureGet
    \/ LectureCreate
    \/ LectureSave
    \/ ModuleRead
    \/ ModuleWrite
    \/ PathRead
    \/ PathWrite

SpecOverlap == InitRace /\ [][NextOverlap]_vars

\* C25: when two toggles of one user on two different lectures of one module
\* have both finished with success, the stored ModuleProgress and
\* LearningPathProgress values equal the values derived from the
\* LectureProgress rows as they are then (100 * viewed / total and the mean
\* over the modules).
C25_AggregatesMatchAfterConcurrentToggles ==
    (/\ \A h \in Handlers : request[h].pc = "done" /\ request[h].status = 200
     /\ request[1].lecture # request[2].lecture)
    => /\ \A k \in 1..Len(moduleProgress) :
             moduleProgress[k].progress = ViewedShare(RaceUser, moduleProgress[k].module)
       /\ \A k \in 1..Len(learningPathProgress) :
             learningPathProgress[k].progress
                = PathShare(RaceUser, learningPathProgress[k].learning_path)

----------------------------------------------------------------------------
(* Two assign requests in flight.  request[h] holds the locals of handler h: *)
(* the institute of the URL and what its lookup found.                       *)

InitAssignRace ==
    /\ learningPaths = {1}
    /\ modules = <<>> /\ lectures = <<>>
    /\ assignments = {} /\ assessments = {}
    /\ mappings = <<>>
    /\ lectureProgress = <<>> /\ moduleProgress = <<>> /\ learningPathProgress = <<>>
    /\ assignmentAttempts = {} /\ assessmentAttempts = {}
    /\ detailCache = <<>> /\ listCache = <<>>
    /\ request = [h \in Handlers |-> [pc |-> "idle"]]
    /\ response = NoResponse

\* A POST reaches the view and the learning path is found
AssignArrive ==
    \E h \in Handlers, i \in Institutes :
        /\ request[h].pc \in {"idle", "done"}
        /\ request' = [request EXCEPT ![h] =
              [pc |-> "filter", institute |-> i, existing_mapping |-> FALSE, status |-> 0]]
        /\ UNCHANGED <<content, mappings, progress, attempts, caches, response>>

\* existing_mapping = InstituteBatchLearningPath.objects.filter(...).first()
AssignFilter ==
    \E h \in Handlers :
        /\ request[h].pc = "filter"
        /\ request' = [request EXCEPT ![h] =
              [@ EXCEPT !.pc = "create",
                        !.existing_mapping = MappingRows(request[h].institute, 1, "Y") # {}]]
        /\ UNCHANGED <<content, mappings, progress, attempts, caches, response>>

\* The 400 for an existing mapping, else InstituteBatchLearningPath.objects.create
AssignCreate ==
    \E h \in Handlers :
        LET r == request[h]
            view == "vendor_add_learning_path_toInstitute"
        IN /\ r.pc = "create"
           /\ IF r.existing_mapping
              THEN /\ response' = Reply(view, 400, "This learning path is already assigned")
                   /\ request' = [request EXCEPT ![h] = [r EXCEPT !.pc = "done", !.status = 400]]
                   /\ UNCHANGED mappings
              ELSE /\ mappings' = Append(mappings, [institution |-> r.institute,
                                                    learning_path |-> 1, batch |-> "Y"])
                   /\ response' = Reply(view, 201, "Successfully assigned learning path")
                   /\ request' = [request EXCEPT ![h] = [r EXCEPT !.pc = "done", !.status = 201]]
           /\ UNCHANGED <<content, progress, attempts, caches>>

\* A DELETE handled when no assign request is in flight
DeleteLater ==
    /\ \A h \in Handlers : request[h].pc \in {"idle", "done"}
    /\ \E i \in Institutes : VendorAddLearningPathToInstitute("DELETE", i, 1, "Y")
    /\ UNCHANGED request

NextAssignRace == AssignArrive \/ AssignFilter \/ AssignCreate \/ DeleteLater

SpecAssignRace == InitAssignRace /\ [][NextAssignRace]_vars

\* C26: once concurrent assign requests for one (institution, learning path,
\* batch) have finished, at most one mapping row exists for that triple.
C26_OneMappingAfterConcurrentAssigns ==
    (\A h \in Handlers : request[h].pc \in {"idle", "done"})
    => \A i \in Institutes : Cardinality(MappingRows(i, 1, "Y")) <= 1

----------------------------------------------------------------------------
(* Modify requests with valid and invalid fields *)

ModifyTitles == {Absent, Text(0), Text(2), Text(MaxTitleLength + 1)}
ModifyTexts == {Absent, Text(3)}
ModifyUrls == {AbsentUrl, Url(<<>>), Url(HttpsUrl), Url(FtpUrl)}

InitModify ==
    /\ learningPaths = {1}
    /\ modules = <<[learning_path |-> 1, title |-> 1, description |-> 0]>>
    /\ lectures = <<[module |-> 1, title |-> 1, content |-> 0, video_url |-> <<>>]>>
    /\ assignments = {} /\ assessments = {}
    /\ mappings = <<>>
    /\ lectureProgress = <<>> /\ moduleProgress = <<>> /\ learningPathProgress = <<>>
    /\ assignmentAttempts = {} /\ assessmentAttempts = {}
    /\ detailCache = <<>> /\ listCache = <<>>
    /\ request = NoRequest /\ response = NoResponse

PutModule ==
    \E t \in ModifyTitles, text \in ModifyTexts :
        LET d == [json |-> TRUE, title |-> t, description |-> text]
        IN /\ ModifyModule("PUT", 1, d)
           /\ request' = [view |-> "modify_module", data |-> d]

PutLecture ==
    \E t \in ModifyTitles, text \in ModifyTexts, v \in ModifyUrls :
        LET d == [json |-> TRUE, title |-> t, content |-> text, video_url |-> v]
        IN /\ ModifyLecture("PUT", 1, d)
           /\ request' = [view |-> "modify_lecture", data |-> d]

NextModify == PutModule \/ PutLecture

SpecModify == InitModify /\ [][NextModify]_vars

\* The body breaks a rule of the modify endpoints
InvalidModify(req) ==
    \/ req.data.title.present
          /\ (req.data.title.value = 0 \/ req.data.title.value > MaxTitleLength)
    \/ /\ req.view = "modify_lecture"
       /\ req.data.video_url.present
       /\ req.data.video_url.value # <<>>
       /\ ~HasPrefix(req.data.video_url.value, <<"h", "t", "t", "p", ":", "/", "/">>)
       /\ ~HasPrefix(req.data.video_url.value, <<"h", "t", "t", "p", "s", ":", "/", "/">>)

\* C27: a modify-module or modify-lecture request with an empty title, a title
\* longer than 100 or a video_url that does not start with http:// or https://
\* is answered 400 and leaves the stored module and lecture unchanged, valid
\* fields of the same request included.
C27_RejectedModifyChangesNothing ==
    [][/\ InvalidModify(request') <=> response'.status = 400
       /\ response'.status = 400 => UNCHANGED <<modules, lectures>>]_vars

\* A modify-lecture request with a valid new title and new content and an
\* invalid video_url was answered 400, and the stored lecture has neither.
C27_Witness ==
    /\ request.view = "modify_lecture"
    /\ response.status = 400
    /\ request.data.title = Text(2) /\ request.data.content = Text(3)
    /\ request.data.video_url = Url(FtpUrl)
    /\ lectures[1].title # 2 /\ lectures[1].content # 3
    /\ modules[1].title = 2

----------------------------------------------------------------------------
(* Lists of lectures with valid and invalid entries *)

\* An https URL of more than 500 characters
LongUrl == HttpsUrl \o [i \in 1..video_url_max_length |-> "a"]

\* An entry that is not an object, entries with each kind of title, and
\* entries with a good title and each kind of video_url
LectureEntries ==
    {[is_object |-> FALSE, title |-> Absent, video_url |-> AbsentUrl]}
      \cup {[is_object |-> TRUE, title |-> t, video_url |-> AbsentUrl] :
               t \in {Absent, Text(0), Text(1), Text(MaxTitleLength + 1)}}
      \cup {[is_object |-> TRUE, title |-> Text(2), video_url |-> v] :
               v \in {Url(HttpsUrl), Url(FtpUrl), Url(LongUrl)}}

InitLectures ==
    /\ learningPaths = {1}
    /\ modules = <<[learning_path |-> 1, title |-> 1], [learning_path |-> 1, title |-> 1]>>
    /\ lectures = <<>>
    /\ assignments = {} /\ assessments = {}
    /\ mappings = <<>>
    /\ lectureProgress = <<>> /\ moduleProgress = <<>> /\ learningPathProgress = <<>>
    /\ assignmentAttempts = {} /\ assessmentAttempts = {}
    /\ detailCache = <<>> /\ listCache = <<>>
    /\ request = NoRequest /\ response = NoResponse

PostLectures ==
    \E m \in 1..2, items \in SeqsUpTo(LectureEntries, MaxNewItems) \ {<<>>} :
        /\ CreateLecturesForModule("POST", m, LecturesBody(items))
        /\ request' = [view |-> "create_lectures_for_module", module_id |-> m,
                       items |-> items]

NextLectures == PostLectures

SpecLectures == InitLectures /\ [][NextLectures]_vars

\* An entry the endpoint's rules call invalid
InvalidLecture(e) ==
    \/ ~e.is_object
    \/ ~e.title.present
    \/ e.title.value = 0
    \/ e.title.value > MaxTitleLength
    \/ /\ e.video_url.present /\ e.video_url.value # <<>>
       /\ ~HasPrefix(e.video_url.value, <<"h", "t", "t", "p", ":", "/", "/">>)
       /\ ~HasPrefix(e.video_url.value, <<"h", "t", "t", "p", "s", ":", "/", "/">>)

\* C28: a create-lectures request with an invalid entry at any position is
\* answered 400 and creates no lecture; a request whose entries are all valid
\* creates exactly one lecture per entry, in list order, in the named module.
C28_LectureListIsAllOrNothing ==
    [][LET items == request'.items
       IN IF \E i \in 1..Len(items) : InvalidLecture(items[i])
          THEN response'.status = 400 /\ UNCHANGED lectures
          ELSE lectures' = lectures \o
                  [i \in 1..Len(items) |->
                      [module |-> request'.module_id, title |-> items[i].title.value]]]_vars

----------------------------------------------------------------------------
(* Every write handler next to the three cached read handlers.  request     *)
(* names the kind of the step: a write handler, a read handler or an expiry. *)

InitCache ==
    /\ learningPaths = {1}
    /\ modules = <<[learning_path |-> 1, title |-> 1]>>
    /\ lectures = <<[module |-> 1, title |-> 1], [module |-> 1, title |-> 1]>>
    /\ assignments = {} /\ assessments = {}
    /\ mappings = AssignedUpTo(1)
    /\ lectureProgress = <<>> /\ moduleProgress = <<>> /\ learningPathProgress = <<>>
    /\ assignmentAttempts = {} /\ assessmentAttempts = {}
    /\ detailCache = <<>> /\ listCache = <<>>
    /\ request = NoRequest /\ response = NoResponse

Write(view) == [view |-> view, kind |-> "write"]
Read(view) == [view |-> view, kind |-> "read"]

WriteToggle ==
    /\ UpdateLearningPathProgress(1, 1)
    /\ request' = Write("update_learning_path_progress")

WriteAssign ==
    /\ \E mth \in {"POST", "DELETE"} : VendorAddLearningPathToInstitute(mth, "parul", 1, "Y")
    /\ request' = Write("vendor_add_learning_path_toInstitute")

WriteCreatePath ==
    /\ CreateLearningPathWithModules("POST", GoodPathBody(<<GoodModule>>))
    /\ request' = Write("create_learning_path_with_modules")

WriteCreateLectures ==
    /\ CreateLecturesForModule("POST", 1, LecturesBody(<<GoodLecture>>))
    /\ request' = Write("create_lectures_for_module")

WriteAddModule ==
    /\ AddModuleToLearningPath("POST", 1, TitleBody(GoodTitle))
    /\ request' = Write("add_module_to_learning_path")

WriteAddLecture ==
    /\ AddLectureToModule("POST", 1, LectureBody(GoodTitle, AbsentUrl))
    /\ request' = Write("add_lecture_to_module")

WriteModifyModule ==
    /\ ModifyModule("PUT", 1, TitleBody(Text(2)))
    /\ request' = Write("modify_module")

WriteModifyLecture ==
    /\ ModifyLecture("PUT", 1, LectureBody(Text(2), AbsentUrl))
    /\ request' = Write("modify_lecture")

ReadList ==
    /\ LearningPathsList("parul", "Y", 1, 1)
    /\ request' = Read("learning_paths_list")

ReadDetail ==
    /\ LearningPathDetail(1, 1)
    /\ request' = Read("learning_path_detail")

ReadVendor ==
    /\ VendorLearningPathsList
    /\ request' = Read("vendor_learning_paths_list")

\* settings.CACHE_TTL runs out for one of the three entries
Expiry ==
    /\ \/ ListCacheExpires("parul", "Y")
       \/ DetailCacheExpires(1)
       \/ /\ vendor_cache_key \in DOMAIN listCache
          /\ listCache' = [k \in DOMAIN listCache \ {vendor_cache_key} |-> listCache[k]]
          /\ UNCHANGED <<content, mappings, progress, attempts, detailCache, response>>
    /\ request' = [view |-> "none", kind |-> "expiry"]

NextCache ==
    \/ WriteToggle
    \/ WriteAssign
    \/ WriteCreatePath
    \/ WriteCreateLectures
    \/ WriteAddModule
    \/ WriteAddLecture
    \/ WriteModifyModule
    \/ WriteModifyLecture
    \/ ReadList
    \/ ReadDetail
    \/ ReadVendor
    \/ Expiry

SpecCache == InitCache /\ [][NextCache]_vars

\* The entries of a cache that are in both states are the same in both
SameLiveEntries(old, new) ==
    \A k \in DOMAIN old \cap DOMAIN new : new[k] = old[k]

\* A response without the keys the handler adds for the user
StructureOfDetail(resp) ==
    Pop(NestedPopped(Pop(resp, {"view", "status"})), PathUserKeys)

StructureOfList(resp) == [k \in 1..Len(resp.data) |-> Pop(resp.data[k], {"progress"})]

\* C29: no write handler changes, deletes or refreshes a cache entry; an entry
\* appears only by a read handler that missed, disappears only by expiry and is
\* never rewritten while it is live; a read answered from a live entry shows
\* the structure the entry holds.
C29_OnlyReadsAndExpiryTouchTheCache ==
    [][/\ request'.kind = "write" => UNCHANGED caches
       /\ SameLiveEntries(detailCache, detailCache')
       /\ SameLiveEntries(listCache, listCache')
       /\ (DOMAIN detailCache' \ DOMAIN detailCache # {}
             \/ DOMAIN listCache' \ DOMAIN listCache # {})
            => request'.kind = "read"
       /\ (DOMAIN detailCache \ DOMAIN detailCache' # {}
             \/ DOMAIN listCache \ DOMAIN listCache' # {})
            => request'.kind = "expiry"
       /\ (request'.view = "learning_path_detail" /\ 1 \in DOMAIN detailCache)
            => StructureOfDetail(response') = detailCache[1]
       /\ (request'.view = "learning_paths_list" /\ <<"parul", "Y">> \in DOMAIN listCache)
            => /\ StructureOfList(response') = listCache[<<"parul", "Y">>].data
               /\ response'.totalItems = listCache[<<"parul", "Y">>].totalItems
       /\ (request'.view = "vendor_learning_paths_list"
              /\ vendor_cache_key \in DOMAIN listCache)
            => response'.learning_paths = listCache[vendor_cache_key].learning_paths]_vars

\* A write handler has just been answered with success while all three
\* entries are live and each of them is older than storage: the detail entry
\* lacks a lecture or has an old title, the listing entry still lists the
\* unassigned path, the vendor entry lacks a path.
C29_Witness ==
    /\ "kind" \in DOMAIN request
    /\ request.kind = "write" /\ response.status \in {200, 201}
    /\ 1 \in DOMAIN detailCache
    /\ detailCache[1] # DetailCacheData(1, 1)
    /\ <<"parul", "Y">> \in DOMAIN listCache
    /\ MappedPaths("parul", "Y") = {}
    /\ vendor_cache_key \in DOMAIN listCache
    /\ listCache[vendor_cache_key] # VendorResponseData

----------------------------------------------------------------------------
(* The rows a toggle leaves alone (specification Spec) *)

\* Every row of the table except the row of key is the same after the step
OnlyRowChanged(old, new, key) ==
    /\ DOMAIN old \subseteq DOMAIN new
    /\ DOMAIN new \subseteq DOMAIN old \cup {key}
    /\ \A k \in DOMAIN old \ {key} : new[k] = old[k]

\* C30: a toggle by u on a lecture of module m in path p changes at most the
\* rows LectureProgress(u, lecture), ModuleProgress(u, m) and
\* LearningPathProgress(u, p): every other progress row and all content rows
\* and mappings are unchanged (a toggle on a missing lecture changes nothing).
C30_ToggleChangesOwnRowsOnly ==
    [][response'.view = "update_learning_path_progress"
       => /\ UNCHANGED <<content, mappings>>
          /\ \/ UNCHANGED progress
             \/ \E u \in Users, l \in 1..Len(lectures) :
                   LET m == lectures[l].module
                       p == modules[m].learning_path
                   IN /\ OnlyRowChanged(lectureProgress, lectureProgress', <<u, l>>)
                      /\ OnlyRowChanged(moduleProgress, moduleProgress', <<u, m>>)
                      /\ OnlyRowChanged(learningPathProgress, learningPathProgress',
                                        <<u, p>>)]_vars

\* A toggle was answered with success while its user has rows for two paths
\* and another user has rows for the toggled path as well.
C30_Witness ==
    /\ response.view = "update_learning_path_progress"
    /\ response.status = 200
    /\ \E u \in Users :
          /\ \A p \in learningPaths : <<u, p>> \in DOMAIN learningPathProgress
          /\ Cardinality(learningPaths) = 2
          /\ Cardinality({k \in DOMAIN lectureProgress : k[1] = u}) >= 2
          /\ \E w \in Users \ {u} :
                /\ \E k \in DOMAIN learningPathProgress : k[1] = w
                /\ \E k \in DOMAIN moduleProgress : k[1] = w

====
